---------------------------- MODULE Spec2Model ----------------------------
(***************************************************************************)
(* Model of the privacy-and-compliance core of Zk-Enclave:                 *)
(*   - compliance/src/asp_provider.rs   AssociationSetProvider             *)
(*   - compliance/src/audit_trail.rs    AuditTrail                         *)
(*   - zk-circuits/src/merkle.rs        MerkleTree (deposit tree)          *)
(*   - phat-contract/src/lib.rs         PrivacyVaultTee                    *)
(*   - phat-contract/src/processor.rs   WithdrawalProcessor, BatchProcessor*)
(*   - zk-circuits/src/lib.rs           Proof (the proof envelopes)        *)
(*   - phat-contract/src/state.rs       EncryptedState, NullifierSet       *)
(*                                                                         *)
(* 32-byte values are terms tagged by their first element, so that a hash  *)
(* is collision free and never equal to a value of another kind:           *)
(*   <<"c", <<b0, b1>>>>   a commitment given by its bytes                 *)
(*   <<"h", l, r>>         SHA-256(l || r)                                 *)
(*   <<"f", k>>            the field element Fp::from(k)                   *)
(*   <<"p", l, r>>         the Poseidon hash of two field elements         *)
(* Each component is a state machine of its own (SpecASP, SpecAudit,       *)
(* SpecTree, SpecVault, SpecProof, SpecState, SpecSet, SpecBatch); the     *)
(* variables of the other components stay at their initial values.  The    *)
(* &mut self methods and the messages are actions and record what they     *)
(* return in the *_last variable of the component; the &self methods are   *)
(* operators of the current state.                                         *)
(***************************************************************************)
EXTENDS Integers, Sequences, FiniteSets, TLC

VARIABLES
    \* AssociationSetProvider (asp_provider.rs:44-52)
    approved_set,        \* HashSet<[u8; 32]>
    merkle_nodes,        \* Vec<Vec<[u8; 32]>>, merkle_nodes[1] is level 0
    asp_root,            \* root
    exclusion_list,      \* ExclusionList {addresses, patterns}
    commitment_indices,  \* HashMap<[u8; 32], usize>
    asp_last,            \* the last &mut call on the provider and its result
    asp_added,           \* history: added by a successful add_commitment and
                         \* not removed by a successful remove_commitment since
    \* AuditTrail (audit_trail.rs:48-53)
    entries,             \* Vec<AuditEntry>
    audit_root,          \* merkle_root
    entry_count,         \* entry_count
    disclosure_keys,     \* HashMap<[u8; 32], [u8; 32]>
    audit_last,          \* the last log_* call on the trail and its result
    audit_calls,         \* history: the log_* calls in the order they were
                         \* made, each with the entry id it returned
    \* MerkleTree (merkle.rs:180-184)
    leaves,              \* leaves, leaves[1] is leaf 0
    nodes,               \* nodes, nodes[1] is level 0
    \* PrivacyVaultTee (phat-contract lib.rs:78-88)
    encrypted_state,
    commitment_root,
    nullifier_set,
    asp_registry,
    audit_log,
    initialized,
    vault_last,          \* the last message and what it returned, with the
                         \* root an update_commitment_root replaced
    accepted,            \* history: the requests process_withdrawal accepted
    \* Proof (zk-circuits lib.rs:39-43)
    held_proof,          \* the Proof the caller holds, NoProof before the first
    proof_made,          \* history: the call that generated held_proof
    proof_last,          \* the last call on Proof and what it returned
    \* EncryptedState (state.rs:7-13)
    held_state,          \* the EncryptedState the caller holds
    held_blob,           \* the bytes its last encrypt returned
    state_last,          \* the last call on EncryptedState and its result
    \* NullifierSet (state.rs:88-92)
    nullifiers,          \* Vec<[u8; 32]>
    bloom_filter,        \* [u64; 16], each word the set of its bits that are 1
    set_last,            \* the last insert and what it returned
    inserted,            \* history: the nullifiers insert was called with
    \* BatchProcessor (processor.rs:165-168)
    requests,            \* Vec<WithdrawalRequest>
    batch_last           \* the last call on the batch and what it returned

aspVars   == <<approved_set, merkle_nodes, asp_root, exclusion_list,
               commitment_indices, asp_last, asp_added>>
auditVars == <<entries, audit_root, entry_count, disclosure_keys, audit_last,
               audit_calls>>
treeVars  == <<leaves, nodes>>
vaultVars == <<encrypted_state, commitment_root, nullifier_set, asp_registry,
               audit_log, initialized, vault_last, accepted>>
proofVars == <<held_proof, proof_made, proof_last>>
stateVars == <<held_state, held_blob, state_last>>
setVars   == <<nullifiers, bloom_filter, set_last, inserted>>
batchVars == <<requests, batch_last>>
vars      == <<aspVars, auditVars, treeVars, vaultVars, proofVars, stateVars,
               setVars, batchVars>>

---------------------------------------------------------------------------
(* Bounds *)

\* config.max_set_size of the provider under test
MaxSetSize == 2
\* largest number of addresses in an exclusion list handed to the provider
MaxExcluded == 1
\* number of log_* calls made on one trail
MaxEntries == 3
\* depth given to MerkleTree::new
TreeDepth == 2
\* number of withdrawals one vault accepts
MaxWithdrawals == 2
\* largest commitment_count an EncryptedState is driven to
MaxCount == 2
\* max_batch_size given to BatchProcessor::new
MaxBatch == 2

---------------------------------------------------------------------------
(* Values and hashes *)

Range(s) == {s[i] : i \in DOMAIN s}

\* [k; 32]: the 32-byte array with every byte k, shortened to two bytes
Bytes32(k) == <<"c", <<k, k>>>>
Zero == Bytes32(0)
\* the commitments the callers of the provider use: one more than the
\* capacity of the provider under test
Commitments == {Bytes32(1), Bytes32(2), Bytes32(3)}

hash_pair(left, right) == <<"h", left, right>>

\* smallest k with 2^k >= n: (n as f64).log2().ceil()
RECURSIVE CeilLog2(_)
CeilLog2(n) == IF n <= 1 THEN 0 ELSE 1 + CeilLog2((n + 1) \div 2)

Pow2(k) == 2 ^ k

\* the n bytes of the value v, one element a byte
BytesOf(v, n) == [i \in 1..n |-> <<"b", v, i>>]

\* bytes[a..b] of a Rust slice, a and b counted from 0
Slice(bytes, a, b) == SubSeq(bytes, a + 1, b)

\* the fold of verify_proof / verify_inclusion / verify_merkle_inclusion:
\* zip(path, indices), so the shorter of the two decides the length
RECURSIVE FoldPath(_, _, _, _)
FoldPath(current, path, indices, k) ==
    IF k > Len(path) \/ k > Len(indices) THEN current
    ELSE FoldPath(IF indices[k] THEN hash_pair(path[k], current)
                               ELSE hash_pair(current, path[k]),
                  path, indices, k + 1)

\* one level up: pairs hashed, a missing right sibling is zero
NextLayer(layer) ==
    [i \in 1..((Len(layer) + 1) \div 2) |->
        hash_pair(layer[2 * i - 1],
                  IF 2 * i <= Len(layer) THEN layer[2 * i] ELSE Zero)]

---------------------------------------------------------------------------
(* AssociationSetProvider *)

matches_pattern(commitment, pattern) ==
    CASE pattern.pattern_type = "ExactMatch" -> commitment[2] = pattern.data
      [] pattern.pattern_type = "PrefixMatch" ->
            /\ Len(pattern.data) <= Len(commitment[2])
            /\ SubSeq(commitment[2], 1, Len(pattern.data)) = pattern.data
      [] OTHER -> FALSE

is_excluded(list, commitment) ==
    \/ commitment \in list.addresses
    \/ \E i \in DOMAIN list.patterns : matches_pattern(commitment, list.patterns[i])

\* ExclusionList::new() followed by add_address calls; no operation of the
\* crate adds a pattern
ExclusionLists ==
    {[addresses |-> a, patterns |-> <<>>] :
        a \in {s \in SUBSET Commitments : Cardinality(s) <= MaxExcluded}}

PadZero(layer, n) == layer \o [i \in 1..(n - Len(layer)) |-> Zero]

RECURSIVE BuildLevels(_, _)
BuildLevels(levels, k) ==
    IF k = 0 THEN levels
    ELSE BuildLevels(Append(levels, NextLayer(levels[Len(levels)])), k - 1)

\* the pair <<merkle_nodes, root>> after rebuild_merkle_tree
rebuild_merkle_tree(mnodes, root) ==
    IF Len(mnodes[1]) = 0 THEN <<mnodes, Zero>>
    ELSE LET depth  == CeilLog2(Len(mnodes[1])) + 1
             level0 == PadZero(mnodes[1], Pow2(depth - 1))
             built  == BuildLevels(<<level0>>, depth - 1)
         IN  <<built, built[Len(built)][1]>>

is_approved(c) == c \in approved_set /\ ~is_excluded(exclusion_list, c)

\* commitment_indices is a map over Commitments; -1 stands for "no entry"
MapPut(m, k, v) == [m EXCEPT ![k] = v]
MapRemove(m, k) == [m EXCEPT ![k] = -1]
MapHas(m, k) == m[k] # -1

\* an add_commitment without the test against config.max_set_size
add_commitment_NoCapacityCheck(commitment) ==
    IF is_excluded(exclusion_list, commitment) THEN
        /\ asp_last' = [op |-> "add_commitment", c |-> commitment,
                        res |-> "CommitmentExcluded", idx |-> 0]
        /\ UNCHANGED <<approved_set, merkle_nodes, asp_root, exclusion_list,
                       commitment_indices, asp_added>>
    ELSE
        LET index  == Cardinality(approved_set)
            level0 == IF Len(merkle_nodes[1]) <= index
                      THEN Append(merkle_nodes[1], commitment)
                      ELSE [merkle_nodes[1] EXCEPT ![index + 1] = commitment]
            rebuilt == rebuild_merkle_tree(
                           [merkle_nodes EXCEPT ![1] = level0], asp_root)
        IN  /\ approved_set' = approved_set \cup {commitment}
            /\ commitment_indices' = MapPut(commitment_indices, commitment, index)
            /\ merkle_nodes' = rebuilt[1]
            /\ asp_root' = rebuilt[2]
            /\ asp_added' = asp_added \cup {commitment}
            /\ asp_last' = [op |-> "add_commitment", c |-> commitment,
                            res |-> "Ok", idx |-> index]
            /\ UNCHANGED exclusion_list

\* an add_commitment that consults the exclusion list only after inserting
add_commitment_InsertsFirst(commitment) ==
    LET index  == Cardinality(approved_set)
        level0 == IF Len(merkle_nodes[1]) <= index
                  THEN Append(merkle_nodes[1], commitment)
                  ELSE [merkle_nodes[1] EXCEPT ![index + 1] = commitment]
        rebuilt == rebuild_merkle_tree(
                       [merkle_nodes EXCEPT ![1] = level0], asp_root)
        failed == is_excluded(exclusion_list, commitment)
    IN  /\ Cardinality(approved_set) < MaxSetSize
        /\ approved_set' = approved_set \cup {commitment}
        /\ commitment_indices' = MapPut(commitment_indices, commitment, index)
        /\ merkle_nodes' = rebuilt[1]
        /\ asp_root' = rebuilt[2]
        /\ asp_added' = IF failed THEN asp_added ELSE asp_added \cup {commitment}
        /\ asp_last' = [op |-> "add_commitment", c |-> commitment,
                        res |-> IF failed THEN "CommitmentExcluded" ELSE "Ok",
                        idx |-> IF failed THEN 0 ELSE index]
        /\ UNCHANGED exclusion_list

add_commitment(commitment) ==
    IF is_excluded(exclusion_list, commitment) THEN
        /\ asp_last' = [op |-> "add_commitment", c |-> commitment,
                        res |-> "CommitmentExcluded", idx |-> 0]
        /\ UNCHANGED <<approved_set, merkle_nodes, asp_root, exclusion_list,
                       commitment_indices, asp_added>>
    ELSE IF Cardinality(approved_set) >= MaxSetSize THEN
        /\ asp_last' = [op |-> "add_commitment", c |-> commitment,
                        res |-> "InvalidProof", idx |-> 0]
        /\ UNCHANGED <<approved_set, merkle_nodes, asp_root, exclusion_list,
                       commitment_indices, asp_added>>
    ELSE
        LET index  == Cardinality(approved_set)
            level0 == IF Len(merkle_nodes[1]) <= index
                      THEN Append(merkle_nodes[1], commitment)
                      ELSE [merkle_nodes[1] EXCEPT ![index + 1] = commitment]
            rebuilt == rebuild_merkle_tree(
                           [merkle_nodes EXCEPT ![1] = level0], asp_root)
        IN  /\ approved_set' = approved_set \cup {commitment}
            /\ commitment_indices' = MapPut(commitment_indices, commitment, index)
            /\ merkle_nodes' = rebuilt[1]
            /\ asp_root' = rebuilt[2]
            /\ asp_added' = asp_added \cup {commitment}
            /\ asp_last' = [op |-> "add_commitment", c |-> commitment,
                            res |-> "Ok", idx |-> index]
            /\ UNCHANGED exclusion_list

\* a remove_commitment that drops the index entry but not the set member
remove_commitment_KeepsMember(commitment) ==
    /\ commitment \in approved_set
    /\ commitment_indices' = MapRemove(commitment_indices, commitment)
    /\ asp_added' = asp_added \ {commitment}
    /\ asp_last' = [op |-> "remove_commitment", c |-> commitment,
                    res |-> "true", idx |-> 0]
    /\ UNCHANGED <<approved_set, merkle_nodes, asp_root, exclusion_list>>

remove_commitment(commitment) ==
    IF commitment \in approved_set THEN
        LET rebuilt == rebuild_merkle_tree(merkle_nodes, asp_root)
        IN  /\ approved_set' = approved_set \ {commitment}
            /\ commitment_indices' = MapRemove(commitment_indices, commitment)
            /\ merkle_nodes' = rebuilt[1]
            /\ asp_root' = rebuilt[2]
            /\ asp_added' = asp_added \ {commitment}
            /\ asp_last' = [op |-> "remove_commitment", c |-> commitment,
                            res |-> "true", idx |-> 0]
            /\ UNCHANGED exclusion_list
    ELSE
        /\ asp_last' = [op |-> "remove_commitment", c |-> commitment,
                        res |-> "false", idx |-> 0]
        /\ UNCHANGED <<approved_set, merkle_nodes, asp_root, exclusion_list,
                       commitment_indices, asp_added>>

set_exclusion_list(list) ==
    LET rebuilt == rebuild_merkle_tree(merkle_nodes, asp_root)
    IN  /\ exclusion_list' = list
        /\ merkle_nodes' = rebuilt[1]
        /\ asp_root' = rebuilt[2]
        /\ asp_last' = [op |-> "set_exclusion_list", c |-> Zero,
                        res |-> "Ok", idx |-> 0]
        /\ UNCHANGED <<approved_set, commitment_indices, asp_added>>

\* the sibling path of leaf `index` (0-based) through the stored levels
RECURSIVE AspPath(_, _, _)
AspPath(mnodes, current_idx, level) ==
    IF level > Len(mnodes) - 1 THEN <<>>
    ELSE LET is_right    == current_idx % 2 = 1
             sibling_idx == IF is_right THEN current_idx - 1 ELSE current_idx + 1
             sibling     == IF sibling_idx < Len(mnodes[level])
                            THEN mnodes[level][sibling_idx + 1] ELSE Zero
         IN  <<[sibling |-> sibling, is_right |-> is_right]>>
                 \o AspPath(mnodes, current_idx \div 2, level + 1)

\* a generate_proof that consults the exclusion list before the approved set
asp_generate_proof_ExclusionFirst(commitment) ==
    IF is_excluded(exclusion_list, commitment) THEN
        [res |-> "CommitmentExcluded", proof |-> <<>>]
    ELSE IF commitment \notin approved_set THEN
        [res |-> "CommitmentNotFound", proof |-> <<>>]
    ELSE IF ~MapHas(commitment_indices, commitment) THEN
        [res |-> "CommitmentNotFound", proof |-> <<>>]
    ELSE LET steps == AspPath(merkle_nodes, commitment_indices[commitment], 1)
         IN  [res |-> "Ok",
              proof |-> <<[path    |-> [i \in DOMAIN steps |-> steps[i].sibling],
                           indices |-> [i \in DOMAIN steps |-> steps[i].is_right],
                           root    |-> asp_root]>>]

\* Result<MerkleProof, ASPError> of generate_proof
asp_generate_proof(commitment) ==
    IF commitment \notin approved_set THEN
        [res |-> "CommitmentNotFound", proof |-> <<>>]
    ELSE IF is_excluded(exclusion_list, commitment) THEN
        [res |-> "CommitmentExcluded", proof |-> <<>>]
    ELSE IF ~MapHas(commitment_indices, commitment) THEN
        [res |-> "CommitmentNotFound", proof |-> <<>>]
    ELSE LET steps == AspPath(merkle_nodes, commitment_indices[commitment], 1)
         IN  [res |-> "Ok",
              proof |-> <<[path    |-> [i \in DOMAIN steps |-> steps[i].sibling],
                           indices |-> [i \in DOMAIN steps |-> steps[i].is_right],
                           root    |-> asp_root]>>]

\* a verify_proof that forgets the comparison with the provider's own root
asp_verify_proof_NoRootCheck(self_root, commitment, proof) ==
    FoldPath(commitment, proof.path, proof.indices, 1) = proof.root

\* verify_proof on a provider whose root is self_root
asp_verify_proof(self_root, commitment, proof) ==
    LET current == FoldPath(commitment, proof.path, proof.indices, 1)
    IN  current = proof.root /\ proof.root = self_root

InitASPVars ==
    /\ approved_set = {}
    /\ merkle_nodes = << <<>> >>
    /\ asp_root = Zero
    /\ exclusion_list = [addresses |-> {}, patterns |-> <<>>]
    /\ commitment_indices = [c \in Commitments |-> -1]
    /\ asp_last = [op |-> "new", c |-> Zero, res |-> "Ok", idx |-> 0]
    /\ asp_added = {}

NextASP ==
    /\ \/ \E c \in Commitments : add_commitment(c)
       \/ \E c \in Commitments : remove_commitment(c)
       \/ \E l \in ExclusionLists : set_exclusion_list(l)
    /\ UNCHANGED <<auditVars, treeVars, vaultVars, proofVars, stateVars,
                 setVars, batchVars>>

---------------------------------------------------------------------------
(* AuditTrail *)

\* Option<T>: <<>> is None, <<v>> is Some(v)
None == <<>>
Some(v) == <<v>>

\* what the callers of the trail pass in and what the clock returns
AuditCommitments == {Bytes32(1), Bytes32(2)}
Timestamps == {0, 1}
Attestation == <<0>>

hash_commitment(commitment) == <<"s", commitment>>

\* an entry id that leaves out the index
compute_entry_id_NoIndex(timestamp, commitment_hash, index) ==
    <<"i", timestamp, commitment_hash>>

compute_entry_id(timestamp, commitment_hash, index) ==
    <<"i", timestamp, commitment_hash, index>>

hash_entry(entry) == <<"e", entry.id, entry.timestamp, entry.commitment_hash>>

\* serde_json::to_vec / from_slice of AuditDetails
to_vec(details) == <<"json", details>>
from_slice(bytes) ==
    IF bytes[1] = "json" THEN [ok |-> TRUE, details |-> bytes[2]]
    ELSE [ok |-> FALSE, details |-> None]

\* b ^ key[i % 32] over the whole buffer; applying the same key twice gives
\* the buffer back
xor_stream(bytes, key) ==
    IF bytes[1] = "x" /\ bytes[3] = key THEN bytes[2] ELSE <<"x", bytes, key>>

\* an encrypt_for_regulator that keys the stream with the entry's own
\* disclosure key
encrypt_for_regulator_OwnKey(details, regulator_key) ==
    xor_stream(to_vec(details), <<"k", to_vec(details)>>)

\* Result<AuditDetails, AuditError> of decrypt_details
decrypt_details(encrypted, key) == from_slice(xor_stream(encrypted, key))

encrypt_for_regulator(details, regulator_key) ==
    xor_stream(to_vec(details), regulator_key)

\* the pair <<encrypted, key>>
encrypt_details(details) ==
    LET serialized == to_vec(details)
        key == <<"k", serialized>>
    IN  <<xor_stream(serialized, key), key>>

RECURSIVE compute_merkle_root(_)
compute_merkle_root(level) ==
    IF Len(level) = 0 THEN Zero
    ELSE IF Len(level) = 1 THEN level[1]
    ELSE compute_merkle_root(NextLayer(level))

\* a path computation that keeps the leaf's index on every level
RECURSIVE compute_merkle_path_SameIndex(_, _)
compute_merkle_path_SameIndex(current_level, current_index) ==
    IF Len(current_level) <= 1 THEN <<>>
    ELSE LET is_right      == current_index % 2 = 1
             sibling_index == IF is_right THEN current_index - 1
                              ELSE current_index + 1
             sibling       == IF sibling_index < Len(current_level)
                              THEN current_level[sibling_index + 1] ELSE Zero
         IN  <<[sibling |-> sibling, is_right |-> is_right]>>
                 \o compute_merkle_path_SameIndex(NextLayer(current_level),
                                                  current_index)

\* the <<sibling, is_right>> steps from leaf `index` (0-based) to the root
RECURSIVE compute_merkle_path(_, _)
compute_merkle_path(current_level, current_index) ==
    IF Len(current_level) <= 1 THEN <<>>
    ELSE LET is_right      == current_index % 2 = 1
             sibling_index == IF is_right THEN current_index - 1
                              ELSE current_index + 1
             sibling       == IF sibling_index < Len(current_level)
                              THEN current_level[sibling_index + 1] ELSE Zero
         IN  <<[sibling |-> sibling, is_right |-> is_right]>>
                 \o compute_merkle_path(NextLayer(current_level),
                                        current_index \div 2)

EntryHashes(es) == [i \in DOMAIN es |-> hash_entry(es[i])]

update_merkle_root(es) ==
    IF Len(es) = 0 THEN Zero ELSE compute_merkle_root(EntryHashes(es))

\* HashMap::insert on the disclosure map, a set of <<entry id, key>> pairs
KeysPut(m, id, key) == {kv \in m : kv[1] # id} \cup {<<id, key>>}

\* a log_entry that puts the new entry in front of the journal
log_entry_Prepends(operation_type, commitment, details, tee_attestation, timestamp) ==
    LET commitment_hash == hash_commitment(commitment)
        enc      == encrypt_details(details)
        entry_id == compute_entry_id(timestamp, commitment_hash, entry_count)
        entry    == [id                |-> entry_id,
                     timestamp         |-> timestamp,
                     operation_type    |-> operation_type,
                     commitment_hash   |-> commitment_hash,
                     encrypted_details |-> enc[1],
                     tee_attestation   |-> tee_attestation,
                     merkle_index      |-> entry_count]
    IN  /\ entries' = <<entry>> \o entries
        /\ disclosure_keys' = KeysPut(disclosure_keys, entry_id, enc[2])
        /\ entry_count' = entry_count + 1
        /\ audit_root' = update_merkle_root(<<entry>> \o entries)
        /\ audit_last' = [op |-> operation_type, res |-> "Ok", id |-> entry_id]
        /\ audit_calls' = Append(audit_calls,
                                 [id             |-> entry_id,
                                  operation_type |-> operation_type,
                                  commitment     |-> commitment,
                                  details        |-> details,
                                  timestamp      |-> timestamp])

log_entry(operation_type, commitment, details, tee_attestation, timestamp) ==
    LET commitment_hash == hash_commitment(commitment)
        enc      == encrypt_details(details)
        entry_id == compute_entry_id(timestamp, commitment_hash, entry_count)
        entry    == [id                |-> entry_id,
                     timestamp         |-> timestamp,
                     operation_type    |-> operation_type,
                     commitment_hash   |-> commitment_hash,
                     encrypted_details |-> enc[1],
                     tee_attestation   |-> tee_attestation,
                     merkle_index      |-> entry_count]
    IN  /\ entries' = Append(entries, entry)
        /\ disclosure_keys' = KeysPut(disclosure_keys, entry_id, enc[2])
        /\ entry_count' = entry_count + 1
        /\ audit_root' = update_merkle_root(Append(entries, entry))
        /\ audit_last' = [op |-> operation_type, res |-> "Ok", id |-> entry_id]
        /\ audit_calls' = Append(audit_calls,
                                 [id             |-> entry_id,
                                  operation_type |-> operation_type,
                                  commitment     |-> commitment,
                                  details        |-> details,
                                  timestamp      |-> timestamp])

log_withdrawal(commitment, amount, recipient_hash, tee_attestation) ==
    \E now \in Timestamps :
        log_entry("Withdrawal", commitment,
                  [commitment |-> commitment, amount |-> Some(amount),
                   recipient_hash |-> Some(recipient_hash),
                   asp_provider |-> None, compliance_result |-> None,
                   metadata |-> {}],
                  tee_attestation, now)

log_deposit(commitment, amount, tee_attestation) ==
    \E now \in Timestamps :
        log_entry("Deposit", commitment,
                  [commitment |-> commitment, amount |-> Some(amount),
                   recipient_hash |-> None,
                   asp_provider |-> None, compliance_result |-> None,
                   metadata |-> {}],
                  tee_attestation, now)

log_compliance_check(commitment, asp_provider, result, tee_attestation) ==
    \E now \in Timestamps :
        log_entry("ComplianceCheck", commitment,
                  [commitment |-> commitment, amount |-> None,
                   recipient_hash |-> None,
                   asp_provider |-> Some(asp_provider),
                   compliance_result |-> Some(result),
                   metadata |-> {}],
                  tee_attestation, now)

\* AuditQuery::new and its builders
AuditQuery_new ==
    [operation_type |-> None, start_time |-> None, end_time |-> None,
     commitment_hash |-> None]

with_operation(self, op) == [self EXCEPT !.operation_type = Some(op)]

with_time_range(self, start, end) ==
    [self EXCEPT !.start_time = Some(start), !.end_time = Some(end)]

with_commitment(self, commitment) ==
    [self EXCEPT !.commitment_hash = Some(hash_commitment(commitment))]

OperationTypes == {"Deposit", "Withdrawal", "ComplianceCheck", "ASPUpdate"}

\* the queries asked: the fields of AuditQuery are public, so each of the
\* four is set or left unset on its own
AuditQueries ==
    [operation_type  : {None} \cup {Some(op) : op \in OperationTypes},
     start_time      : {None} \cup {Some(t) : t \in Timestamps},
     end_time        : {None} \cup {Some(t) : t \in Timestamps},
     commitment_hash : {None} \cup {Some(hash_commitment(c)) : c \in AuditCommitments}]

\* a matches_query that also refuses an entry logged at start_time itself
matches_query_StrictStart(entry, q) ==
    IF q.operation_type # None /\ entry.operation_type # q.operation_type[1]
    THEN FALSE
    ELSE IF q.start_time # None /\ entry.timestamp <= q.start_time[1]
    THEN FALSE
    ELSE IF q.end_time # None /\ entry.timestamp > q.end_time[1]
    THEN FALSE
    ELSE IF q.commitment_hash # None /\ entry.commitment_hash # q.commitment_hash[1]
    THEN FALSE
    ELSE TRUE

matches_query(entry, q) ==
    IF q.operation_type # None /\ entry.operation_type # q.operation_type[1]
    THEN FALSE
    ELSE IF q.start_time # None /\ entry.timestamp < q.start_time[1]
    THEN FALSE
    ELSE IF q.end_time # None /\ entry.timestamp > q.end_time[1]
    THEN FALSE
    ELSE IF q.commitment_hash # None /\ entry.commitment_hash # q.commitment_hash[1]
    THEN FALSE
    ELSE TRUE

\* AuditTrail::query: entries.iter().filter(..).collect()
query(q) == SelectSeq(entries, LAMBDA e : matches_query(e, q))

\* position (1-based) of the first entry with this id, 0 when there is none
EntryPosition(entry_id) ==
    IF \E i \in DOMAIN entries : entries[i].id = entry_id
    THEN CHOOSE i \in DOMAIN entries :
            /\ entries[i].id = entry_id
            /\ \A j \in 1..(i - 1) : entries[j].id # entry_id
    ELSE 0

\* Result<InclusionProof, AuditError> of generate_inclusion_proof
generate_inclusion_proof(entry_id) ==
    LET pos == EntryPosition(entry_id)
    IN  IF pos = 0 THEN [res |-> "EntryNotFound", proof |-> <<>>]
        ELSE LET hashes == EntryHashes(entries)
                 steps  == compute_merkle_path(hashes, pos - 1)
             IN  [res |-> "Ok",
                  proof |-> <<[entry_hash |-> hashes[pos],
                               path    |-> [i \in DOMAIN steps |-> steps[i].sibling],
                               indices |-> [i \in DOMAIN steps |-> steps[i].is_right],
                               root    |-> audit_root]>>]

get_entry(id) ==
    IF EntryPosition(id) = 0 THEN None ELSE Some(entries[EntryPosition(id)])

\* HashMap::get on the disclosure map
KeysGet(m, id) ==
    IF \E kv \in m : kv[1] = id
    THEN Some((CHOOSE kv \in m : kv[1] = id)[2])
    ELSE None

\* Result<SelectiveDisclosure, AuditError> of selective_disclosure
selective_disclosure(entry_id, regulator_key) ==
    IF get_entry(entry_id) = None
    THEN [res |-> "EntryNotFound", value |-> None]
    ELSE IF KeysGet(disclosure_keys, entry_id) = None
    THEN [res |-> "InvalidKey", value |-> None]
    ELSE LET entry     == get_entry(entry_id)[1]
             key       == KeysGet(disclosure_keys, entry_id)[1]
             decrypted == decrypt_details(entry.encrypted_details, key)
             proof     == generate_inclusion_proof(entry_id)
         IN  IF ~decrypted.ok
             THEN [res |-> "EncryptionError", value |-> None]
             ELSE IF proof.res # "Ok"
             THEN [res |-> proof.res, value |-> None]
             ELSE [res |-> "Ok",
                   value |-> Some(
                       [entry_id                |-> entry_id,
                        timestamp               |-> entry.timestamp,
                        operation_type          |-> entry.operation_type,
                        encrypted_for_regulator |->
                            encrypt_for_regulator(decrypted.details,
                                                  regulator_key),
                        inclusion_proof         |-> proof.proof[1],
                        tee_attestation         |-> entry.tee_attestation])]

\* the keys regulators present: the zero key and [0xab; 32]
RegulatorKeys == {Zero, Bytes32(171)}

\* verify_inclusion on a trail whose merkle_root is self_root
verify_inclusion(self_root, proof) ==
    LET current == FoldPath(proof.entry_hash, proof.path, proof.indices, 1)
    IN  current = proof.root /\ proof.root = self_root

InitAuditVars ==
    /\ entries = <<>>
    /\ audit_root = Zero
    /\ entry_count = 0
    /\ disclosure_keys = {}
    /\ audit_last = [op |-> "new", res |-> "Ok", id |-> Zero]
    /\ audit_calls = <<>>

NextAudit ==
    /\ Len(entries) < MaxEntries
    /\ \/ \E c \in AuditCommitments : log_deposit(c, 1000, Attestation)
       \/ \E c \in AuditCommitments : log_withdrawal(c, 500, Bytes32(3), Attestation)
       \/ \E c \in AuditCommitments :
              log_compliance_check(c, "asp", TRUE, Attestation)
    /\ UNCHANGED <<aspVars, treeVars, vaultVars, proofVars, stateVars,
                 setVars, batchVars>>

---------------------------------------------------------------------------
(* MerkleTree: the deposit tree *)

\* field elements: Fp::from(k), and the Poseidon hash of two of them
Fp(k) == <<"f", k>>
FpZero == Fp(0)
poseidon_hash_native(left, right) == <<"p", left, right>>

\* the values inserted into the tree
LeafValues == {FpZero, Fp(1), Fp(2)}

TreeIndices == 0..(Pow2(TreeDepth) - 1)

\* MerkleTree::new(depth): every leaf and every node is Fp::ZERO
tree_new(depth) ==
    [leaves |-> [i \in 1..Pow2(depth) |-> FpZero],
     nodes  |-> [level \in 1..(depth + 1) |->
                    [i \in 1..Pow2(depth - (level - 1)) |-> FpZero]]]

\* nodes after recomputing the parents of `idx` from `level` (0-based) upwards
RECURSIVE UpdatePath(_, _, _, _)
UpdatePath(ns, idx, level, depth) ==
    IF level >= depth THEN ns
    ELSE LET parent_idx == idx \div 2
             left_idx   == parent_idx * 2
             right_idx  == left_idx + 1
             left       == ns[level + 1][left_idx + 1]
             right      == IF right_idx < Len(ns[level + 1])
                           THEN ns[level + 1][right_idx + 1] ELSE FpZero
         IN  UpdatePath([ns EXCEPT ![level + 2][parent_idx + 1] =
                            poseidon_hash_native(left, right)],
                        parent_idx, level + 1, depth)

insert(index, value) ==
    /\ index < Len(leaves)
    /\ leaves' = [leaves EXCEPT ![index + 1] = value]
    /\ nodes' = UpdatePath([nodes EXCEPT ![1][index + 1] = value],
                           index, 0, TreeDepth)

tree_root == nodes[TreeDepth + 1][1]

RECURSIVE TreePath(_, _, _)
TreePath(ns, idx, level) ==
    IF level >= TreeDepth THEN <<>>
    ELSE LET is_right    == idx % 2 = 1
             sibling_idx == IF is_right THEN idx - 1 ELSE idx + 1
             sibling     == IF sibling_idx < Len(ns[level + 1])
                            THEN ns[level + 1][sibling_idx + 1] ELSE FpZero
         IN  <<[sibling |-> sibling, is_right |-> is_right]>>
                 \o TreePath(ns, idx \div 2, level + 1)

\* MerkleTree::generate_proof(index)
tree_generate_proof(index) ==
    LET steps == TreePath(nodes, index, 0)
    IN  [path    |-> [i \in DOMAIN steps |-> steps[i].sibling],
         indices |-> [i \in DOMAIN steps |-> steps[i].is_right]]

\* a fold that starts from Fp::ZERO whatever the leaf is
RECURSIVE compute_root_SkipsLeaf(_, _, _)
compute_root_SkipsLeaf(proof, current, k) ==
    IF k > Len(proof.path) \/ k > Len(proof.indices)
    THEN IF k = 1 THEN FpZero ELSE current
    ELSE compute_root_SkipsLeaf(proof,
                      IF proof.indices[k]
                      THEN poseidon_hash_native(proof.path[k],
                                                IF k = 1 THEN FpZero ELSE current)
                      ELSE poseidon_hash_native(IF k = 1 THEN FpZero ELSE current,
                                                proof.path[k]),
                      k + 1)

\* MerkleProof::compute_root(leaf)
RECURSIVE compute_root(_, _, _)
compute_root(proof, current, k) ==
    IF k > Len(proof.path) \/ k > Len(proof.indices) THEN current
    ELSE compute_root(proof,
                      IF proof.indices[k]
                      THEN poseidon_hash_native(proof.path[k], current)
                      ELSE poseidon_hash_native(current, proof.path[k]),
                      k + 1)

\* MerkleProof::verify(leaf, root)
proof_verify(proof, leaf, root) == compute_root(proof, leaf, 1) = root

\* MerkleTree::verify_proof(leaf, proof)
tree_verify_proof(leaf, proof) == proof_verify(proof, leaf, tree_root)

InitTreeVars ==
    /\ leaves = tree_new(TreeDepth).leaves
    /\ nodes = tree_new(TreeDepth).nodes

NextTree ==
    /\ \E i \in TreeIndices, v \in LeafValues : insert(i, v)
    /\ UNCHANGED <<aspVars, auditVars, vaultVars, proofVars, stateVars,
                 setVars, batchVars>>

---------------------------------------------------------------------------
(* PrivacyVaultTee, with WithdrawalProcessor and EncryptedState *)

\* accounts that send messages; the constructor's caller becomes the owner
Accounts == {"alice", "bob"}
owner == "alice"
\* the accounts proposed as association set providers
AspAccounts == {"bob"}
\* process_withdrawal does not read the caller
NoCaller == "-"
\* evm_vault_address of PrivacyVaultTee::default()
evm_vault_address == <<"a", 0>>

\* what the senders of withdrawal requests use
VaultCommitments == {Bytes32(1), Bytes32(2)}
VaultRoots == {hash_pair(Bytes32(1), Bytes32(2)), hash_pair(Bytes32(2), Bytes32(1))}
VaultTimestamps == {0, 1}
Recipient == <<"a", 1>>

\* SHA-256("nullifier" || commitment)[..16]
NullifierPrefix(commitment) == <<"d", commitment>>

\* a 32-byte nullifier <<"n", bytes 0..16, bytes 16..32>>; the last one is
\* derived from a commitment no sender uses
Nullifiers ==
    {<<"n", NullifierPrefix(Bytes32(1)), 0>>,
     <<"n", NullifierPrefix(Bytes32(1)), 1>>,
     <<"n", NullifierPrefix(Bytes32(2)), 0>>,
     <<"n", NullifierPrefix(Bytes32(3)), 0>>}

WithdrawalRequests ==
    [commitment    : VaultCommitments,
     nullifier     : Nullifiers,
     recipient     : {Recipient},
     amount        : {0, 1},
     merkle_proof  : {<<>>, <<Bytes32(1)>>, <<Bytes32(2)>>},
     proof_indices : {<<>>, <<FALSE>>, <<TRUE>>}]

\* SCALE encoding; Decode fails on bytes that are no encoding of the type
scale_encode(value) == <<"scale", value>>
scale_decode(bytes) ==
    IF Len(bytes) = 2 /\ bytes[1] = "scale"
    THEN [ok |-> TRUE, value |-> bytes[2]]
    ELSE [ok |-> FALSE, value |-> None]

\* the messages process_withdrawal receives: encoded requests, and bytes that
\* do not decode
Undecodable == <<"garbage">>
EncryptedRequests ==
    {scale_encode(r) : r \in WithdrawalRequests} \cup {Undecodable}

\* EncryptedState::new()
EncryptedState_new ==
    [contract_key     |-> <<"sha256", "key_seed_for_testing_only_v1.0.0">>,
     state_version    |-> 1,
     commitment_count |-> 0,
     last_update      |-> 0]

\* EncryptedState::default(), derived: every field zero
EncryptedState_default ==
    [contract_key     |-> Zero,
     state_version    |-> 0,
     commitment_count |-> 0,
     last_update      |-> 0]

\* the bytes of a blob after its header are <<"scale", state>>, the 52 bytes
\* Encode gives for an EncryptedState (32 bytes of key, u32, u64, u64),
\* <<"x", bytes, key>>, bytes xored with the key, or <<"cut", bytes, n>>,
\* the first n of the bytes
RECURSIVE body_len(_)
body_len(bytes) ==
    IF bytes[1] = "scale" THEN 52
    ELSE IF bytes[1] = "x" THEN body_len(bytes[2])
    ELSE bytes[3]

\* Decode of EncryptedState: the fields have fixed widths, so any 52 bytes
\* decode; bytes that no state encodes to give fields read off those bytes
state_decode(bytes) ==
    IF body_len(bytes) < 52 THEN [ok |-> FALSE, value |-> None]
    ELSE IF bytes[1] = "scale" THEN [ok |-> TRUE, value |-> bytes[2]]
    ELSE [ok    |-> TRUE,
          value |-> [contract_key     |-> <<"raw", bytes, 0, 32>>,
                     state_version    |-> <<"raw", bytes, 32, 36>>,
                     commitment_count |-> <<"raw", bytes, 36, 44>>,
                     last_update      |-> <<"raw", bytes, 44, 52>>]]

\* byte ^ key[i % 32] over the bytes: the zero key changes nothing, the
\* same key twice gives the bytes back
state_xor(bytes, key) ==
    IF key = Zero THEN bytes
    ELSE IF bytes[1] = "x" /\ bytes[3] = key THEN bytes[2]
    ELSE <<"x", bytes, key>>

\* EncryptedState::encrypt: the magic E0 01 00 00, then the keyed bytes
EncryptedState_encrypt(state) ==
    <<224, 1, 0, 0, state_xor(scale_encode(state), state.contract_key)>>

\* EncryptedState::decrypt: Result<Self, Error>
EncryptedState_decrypt(encrypted) ==
    IF Len(encrypted) < 4 THEN [ok |-> FALSE, value |-> None]
    ELSE IF encrypted[1] # 224 \/ encrypted[2] # 1
    THEN [ok |-> FALSE, value |-> None]
    ELSE IF Len(encrypted) = 4 THEN [ok |-> FALSE, value |-> None]
    ELSE state_decode(state_xor(encrypted[5],
                                EncryptedState_new.contract_key))

\* an owner check that lets every account pass
ensure_owner_AnyAccount(caller) == caller \in Accounts

ensure_owner(caller) == caller = owner

ensure_initialized == initialized

\* Result<WithdrawalRequest, Error>
decrypt_request(encrypted) ==
    IF ~EncryptedState_decrypt(encrypted_state).ok
    THEN [ok |-> FALSE, value |-> None]
    ELSE scale_decode(encrypted)

\* a scan of the nullifier set that stops before its newest element
verify_nullifier_unused_SkipsNewest(nullifier) ==
    \A k \in 1..(Len(nullifier_set) - 1) : nullifier_set[k] # nullifier

\* TRUE for Ok(()), FALSE for Err(NullifierAlreadyUsed)
verify_nullifier_unused(nullifier) == nullifier \notin Range(nullifier_set)

\* Ok or the error of validate_request
validate_request(request) ==
    IF request.amount = 0 THEN "InvalidRequest"
    ELSE IF Len(request.merkle_proof) = 0 THEN "InvalidMerkleProof"
    ELSE IF Len(request.merkle_proof) # Len(request.proof_indices)
    THEN "InvalidMerkleProof"
    ELSE "Ok"

\* a membership check that accepts a path folding to any root the vault is
\* ever given, not only the one handed in
verify_merkle_inclusion_AnyRoot(root, leaf, proof, indices) ==
    FoldPath(leaf, proof, indices, 1) \in VaultRoots

verify_merkle_inclusion(root, leaf, proof, indices) ==
    FoldPath(leaf, proof, indices, 1) = root

verify_nullifier_derivation(commitment, nullifier) ==
    NullifierPrefix(commitment) = nullifier[2]

\* SHA-256 over commitment, nullifier, recipient, amount.to_le_bytes(), root
proof_hash(root, request) ==
    <<"sha256", request.commitment, request.nullifier, request.recipient,
      <<"le16", request.amount>>, root>>

\* [0u8; 159]
Padding == [i \in 1..159 |-> 0]

\* an envelope with the nullifier written before the root
generate_zk_proof_NullifierFirst(root, request) ==
    <<1>> \o BytesOf(proof_hash(root, request), 32)
          \o BytesOf(request.nullifier, 32)
          \o BytesOf(root, 32)
          \o Padding

\* the envelope: version byte, proof hash, root, nullifier, padding
generate_zk_proof(root, request) ==
    <<1>> \o BytesOf(proof_hash(root, request), 32)
          \o BytesOf(root, 32)
          \o BytesOf(request.nullifier, 32)
          \o Padding

\* a generator that checks the nullifier binding before the membership
generate_withdrawal_proof_BindingFirst(root, request) ==
    IF validate_request(request) # "Ok"
    THEN [res |-> validate_request(request), proof |-> <<>>, is_valid |-> FALSE]
    ELSE IF ~verify_nullifier_derivation(request.commitment, request.nullifier)
    THEN [res |-> "InvalidProof", proof |-> <<>>, is_valid |-> FALSE]
    ELSE IF ~verify_merkle_inclusion(root, request.commitment,
                                     request.merkle_proof, request.proof_indices)
    THEN [res |-> "InvalidMerkleProof", proof |-> <<>>, is_valid |-> FALSE]
    ELSE [res |-> "Ok", proof |-> generate_zk_proof(root, request),
          is_valid |-> TRUE]

\* Result<(Vec<u8>, bool), Error> of a processor built on `root`
generate_withdrawal_proof(root, request) ==
    IF validate_request(request) # "Ok"
    THEN [res |-> validate_request(request), proof |-> <<>>, is_valid |-> FALSE]
    ELSE IF ~verify_merkle_inclusion(root, request.commitment,
                                     request.merkle_proof, request.proof_indices)
    THEN [res |-> "InvalidMerkleProof", proof |-> <<>>, is_valid |-> FALSE]
    ELSE IF ~verify_nullifier_derivation(request.commitment, request.nullifier)
    THEN [res |-> "InvalidProof", proof |-> <<>>, is_valid |-> FALSE]
    ELSE [res |-> "Ok", proof |-> generate_zk_proof(root, request),
          is_valid |-> TRUE]

\* AttestationReport of generate_attestation_report, encoded
generate_attestation_report(now) ==
    scale_encode([data_hash  |-> commitment_root,
                  timestamp  |-> now,
                  enclave_id |-> <<"enclave", evm_vault_address>>,
                  signature  |-> <<>>])

\* the AuditEntry pushed by log_audit_entry; `now` is the millisecond the
\* clock returns during the call, for the report and for the entry
audit_entry(request, now) ==
    [timestamp         |-> now,
     entry_hash        |-> <<"sha256", request.commitment,
                             <<"le16", request.amount>>>>,
     encrypted_details |-> scale_encode(
                               [commitment     |-> request.commitment,
                                amount         |-> request.amount,
                                recipient_hash |-> <<"sha256", request.recipient>>]),
     tee_attestation   |-> generate_attestation_report(now)]

\* an Err return of process_withdrawal: nothing was written before it
withdrawal_error(res, nullifier) ==
    /\ vault_last' = [op |-> "process_withdrawal", caller |-> NoCaller,
                      res |-> res, nullifier |-> nullifier, replaced |-> None]
    /\ UNCHANGED <<encrypted_state, commitment_root, nullifier_set,
                   asp_registry, audit_log, initialized, accepted>>

\* a commit that records the nullifier and leaves the audit log as it was
withdrawal_commit_NoAudit(request) ==
    /\ Len(nullifier_set) < MaxWithdrawals
    /\ nullifier_set' = Append(nullifier_set, request.nullifier)
    /\ accepted' = Append(accepted, [commitment |-> request.commitment,
                                     nullifier  |-> request.nullifier])
    /\ vault_last' = [op |-> "process_withdrawal", caller |-> NoCaller,
                      res |-> "Ok", nullifier |-> request.nullifier,
                      replaced |-> None]
    /\ UNCHANGED <<encrypted_state, commitment_root, asp_registry, audit_log,
                   initialized>>

\* the tail of process_withdrawal after the proof was generated
withdrawal_commit(request) ==
    /\ Len(nullifier_set) < MaxWithdrawals
    /\ nullifier_set' = Append(nullifier_set, request.nullifier)
    /\ \E now \in VaultTimestamps :
          audit_log' = Append(audit_log, audit_entry(request, now))
    /\ accepted' = Append(accepted, [commitment |-> request.commitment,
                                     nullifier  |-> request.nullifier])
    /\ vault_last' = [op |-> "process_withdrawal", caller |-> NoCaller,
                      res |-> "Ok", nullifier |-> request.nullifier,
                      replaced |-> None]
    /\ UNCHANGED <<encrypted_state, commitment_root, asp_registry, initialized>>

\* a process_withdrawal that records the nullifier as soon as it is found unused
process_withdrawal_RecordsFirst(encrypted_request) ==
    IF ~ensure_initialized THEN withdrawal_error("StateCorrupted", None)
    ELSE IF ~decrypt_request(encrypted_request).ok
    THEN withdrawal_error("DecryptionError", None)
    ELSE LET request == decrypt_request(encrypted_request).value
             result  == generate_withdrawal_proof(commitment_root, request)
         IN  IF ~verify_nullifier_unused(request.nullifier)
             THEN withdrawal_error("NullifierAlreadyUsed", request.nullifier)
             ELSE IF result.res # "Ok"
             THEN /\ Len(nullifier_set) < MaxWithdrawals
                  /\ nullifier_set' = Append(nullifier_set, request.nullifier)
                  /\ vault_last' = [op |-> "process_withdrawal",
                                    caller |-> NoCaller, res |-> result.res,
                                    nullifier |-> request.nullifier,
                                    replaced |-> None]
                  /\ UNCHANGED <<encrypted_state, commitment_root, asp_registry,
                                 audit_log, initialized, accepted>>
             ELSE withdrawal_commit(request)

process_withdrawal(encrypted_request) ==
    IF ~ensure_initialized THEN withdrawal_error("StateCorrupted", None)
    ELSE LET decrypted == decrypt_request(encrypted_request) IN
    IF ~decrypted.ok
    THEN withdrawal_error("DecryptionError", None)
    ELSE LET request == decrypted.value
             result  == generate_withdrawal_proof(commitment_root, request)
         IN  IF ~verify_nullifier_unused(request.nullifier)
             THEN withdrawal_error("NullifierAlreadyUsed", request.nullifier)
             ELSE IF result.res # "Ok"
             THEN withdrawal_error(result.res, request.nullifier)
             ELSE IF ~result.is_valid
             THEN withdrawal_error("InvalidProof", request.nullifier)
             ELSE withdrawal_commit(request)

\* an initialize that does not look at the initialized flag
initialize_Repeatable(caller, initial_root) ==
    IF ~ensure_owner(caller) THEN
        /\ vault_last' = [op |-> "initialize", caller |-> caller,
                          res |-> "NotAuthorized", nullifier |-> None,
                          replaced |-> None]
        /\ UNCHANGED <<encrypted_state, commitment_root, nullifier_set,
                       asp_registry, audit_log, initialized, accepted>>
    ELSE
        /\ commitment_root' = initial_root
        /\ encrypted_state' = EncryptedState_encrypt(EncryptedState_new)
        /\ initialized' = TRUE
        /\ vault_last' = [op |-> "initialize", caller |-> caller,
                          res |-> "Ok", nullifier |-> None, replaced |-> None]
        /\ UNCHANGED <<nullifier_set, asp_registry, audit_log, accepted>>

initialize(caller, initial_root) ==
    IF ~ensure_owner(caller) \/ initialized THEN
        /\ vault_last' = [op |-> "initialize", caller |-> caller,
                          res |-> "NotAuthorized", nullifier |-> None,
                          replaced |-> None]
        /\ UNCHANGED <<encrypted_state, commitment_root, nullifier_set,
                       asp_registry, audit_log, initialized, accepted>>
    ELSE
        /\ commitment_root' = initial_root
        /\ encrypted_state' = EncryptedState_encrypt(EncryptedState_new)
        /\ initialized' = TRUE
        /\ vault_last' = [op |-> "initialize", caller |-> caller,
                          res |-> "Ok", nullifier |-> None, replaced |-> None]
        /\ UNCHANGED <<nullifier_set, asp_registry, audit_log, accepted>>

update_commitment_root(caller, new_root) ==
    IF ~ensure_owner(caller) \/ ~ensure_initialized THEN
        /\ vault_last' = [op |-> "update_commitment_root", caller |-> caller,
                          res |-> IF ~ensure_owner(caller) THEN "NotAuthorized"
                                  ELSE "StateCorrupted",
                          nullifier |-> None, replaced |-> None]
        /\ UNCHANGED <<encrypted_state, commitment_root, nullifier_set,
                       asp_registry, audit_log, initialized, accepted>>
    ELSE
        /\ commitment_root' = new_root
        /\ vault_last' = [op |-> "update_commitment_root", caller |-> caller,
                          res |-> "Ok", nullifier |-> None,
                          replaced |-> commitment_root]
        /\ UNCHANGED <<encrypted_state, nullifier_set, asp_registry, audit_log,
                       initialized, accepted>>

register_asp(caller, asp) ==
    IF ~ensure_owner(caller) THEN
        /\ vault_last' = [op |-> "register_asp", caller |-> caller,
                          res |-> "NotAuthorized", nullifier |-> None,
                          replaced |-> None]
        /\ UNCHANGED <<encrypted_state, commitment_root, nullifier_set,
                       asp_registry, audit_log, initialized, accepted>>
    ELSE
        /\ asp_registry' = IF asp \in Range(asp_registry) THEN asp_registry
                           ELSE Append(asp_registry, asp)
        /\ vault_last' = [op |-> "register_asp", caller |-> caller,
                          res |-> "Ok", nullifier |-> None, replaced |-> None]
        /\ UNCHANGED <<encrypted_state, commitment_root, nullifier_set,
                       audit_log, initialized, accepted>>

ensure_asp_registered(asp) == asp \in Range(asp_registry)

\* get_asp_root ignores the provider it is given
get_asp_root(asp) == Zero

\* AssociationProofData, encoded
generate_association_proof(commitment, association_root) ==
    scale_encode([commitment       |-> commitment,
                  association_root |-> association_root,
                  deposit_root     |-> commitment_root])

\* Result<ComplianceProof, Error>; `now` is what the clock returns
generate_compliance_proof(commitment, asp_id, now) ==
    IF ~ensure_initialized THEN [res |-> "StateCorrupted", value |-> None]
    ELSE IF ~ensure_asp_registered(asp_id)
    THEN [res |-> "NotAuthorized", value |-> None]
    ELSE LET association_root == get_asp_root(asp_id)
         IN  [res   |-> "Ok",
              value |-> Some([deposit_commitment |-> commitment,
                              association_root   |-> association_root,
                              zk_proof |-> generate_association_proof(
                                               commitment, association_root),
                              asp_signature |-> <<>>,
                              timestamp     |-> now])]

is_nullifier_used(nullifier) == nullifier \in Range(nullifier_set)

get_audit_log_count == Len(audit_log)

\* PrivacyVaultTee::new: the state after construction
InitVaultVars ==
    /\ encrypted_state = <<>>
    /\ commitment_root = Zero
    /\ nullifier_set = <<>>
    /\ asp_registry = <<>>
    /\ audit_log = <<>>
    /\ initialized = FALSE
    /\ vault_last = [op |-> "new", caller |-> owner, res |-> "Ok",
                     nullifier |-> None, replaced |-> None]
    /\ accepted = <<>>

NextVault ==
    /\ \/ \E caller \in Accounts, root \in VaultRoots : initialize(caller, root)
       \/ \E bytes \in EncryptedRequests : process_withdrawal(bytes)
       \/ \E caller \in Accounts, root \in VaultRoots :
              update_commitment_root(caller, root)
       \/ \E caller \in Accounts, asp \in AspAccounts : register_asp(caller, asp)
    /\ UNCHANGED <<aspVars, auditVars, treeVars, proofVars, stateVars,
                 setVars, batchVars>>

---------------------------------------------------------------------------
(* Proof (zk-circuits/src/lib.rs): the withdrawal and association envelopes *)

\* poseidon_hash(&[..]) over byte strings
poseidon_hash(inputs) == <<"pb", inputs>>

\* MerkleTree::compute_root_from_path(leaf, path, indices)
compute_root_from_path(leaf, path, indices) == FoldPath(leaf, path, indices, 1)

\* u64::to_le_bytes
to_le_bytes(n) == <<"le8", n>>

RECURSIVE path_indices_to_index(_)
path_indices_to_index(indices) ==
    IF indices = <<>> THEN 0
    ELSE (IF Head(indices) THEN 1 ELSE 0)
             + 2 * path_indices_to_index(Tail(indices))

NoProof == [bytes |-> <<"none">>, public_inputs_hash |-> Zero]

\* the witnesses and public inputs handed to the generators and verifiers
Secret == Bytes32(1)
NullifierSeed == Bytes32(2)
PathIndices == {<<FALSE>>, <<TRUE>>}
WithdrawalWitnesses ==
    [secret         : {Secret},
     nullifier_seed : {NullifierSeed},
     merkle_path    : {<<Bytes32(4)>>},
     path_indices   : PathIndices]
ProofRoots ==
    {compute_root_from_path(poseidon_hash(<<Secret, NullifierSeed>>),
                            <<Bytes32(4)>>, i) : i \in PathIndices}
ProofNullifiers ==
    {poseidon_hash(<<NullifierSeed, to_le_bytes(k)>>) : k \in {0, 1}}
WithdrawalPublicInputs ==
    [merkle_root : ProofRoots,
     nullifier   : ProofNullifiers,
     recipient   : {<<"a", 1>>, <<"a", 2>>},
     amount      : {1, 2}]
AssociationWitnesses ==
    [commitment          : {Bytes32(1)},
     deposit_path        : {<<Bytes32(4)>>},
     deposit_indices     : PathIndices,
     association_path    : {<<Bytes32(5)>>},
     association_indices : {<<FALSE>>}]
AssociationPublicInputs ==
    [deposit_root     : {compute_root_from_path(Bytes32(1), <<Bytes32(4)>>, i) :
                            i \in PathIndices},
     association_root : {compute_root_from_path(Bytes32(1), <<Bytes32(5)>>,
                                                <<FALSE>>), Zero}]

\* Proof::generate_withdrawal: Result<Proof, CircuitError>
generate_withdrawal(witness, public_inputs) ==
    LET commitment == poseidon_hash(<<witness.secret, witness.nullifier_seed>>)
        computed_root == compute_root_from_path(commitment, witness.merkle_path,
                                                witness.path_indices)
        leaf_index == path_indices_to_index(witness.path_indices)
        nullifier == poseidon_hash(<<witness.nullifier_seed,
                                     to_le_bytes(leaf_index)>>)
        public_inputs_hash ==
            <<"sha256", public_inputs.merkle_root, public_inputs.nullifier,
              public_inputs.recipient, to_le_bytes(public_inputs.amount),
              commitment>>
        proof_data == <<1>> \o BytesOf(public_inputs_hash, 32)
                          \o BytesOf(public_inputs.merkle_root, 32)
                          \o BytesOf(public_inputs.nullifier, 32)
        signature == <<"sha256", proof_data, commitment>>
    IN  IF computed_root # public_inputs.merkle_root
        THEN [res |-> "Err(ProofGeneration)", proof |-> NoProof]
        ELSE IF nullifier # public_inputs.nullifier
        THEN [res |-> "Err(ProofGeneration)", proof |-> NoProof]
        ELSE [res |-> "Ok",
              proof |-> [bytes |-> proof_data \o BytesOf(signature, 32),
                         public_inputs_hash |-> public_inputs_hash]]

\* Proof::verify_withdrawal: Result<bool, CircuitError>
verify_withdrawal(self, public_inputs) ==
    IF Len(self.bytes) < 97 THEN "Err(ProofVerification)"
    ELSE IF self.bytes[1] # 1 THEN "Err(ProofVerification)"
    ELSE IF Slice(self.bytes, 33, 65) # BytesOf(public_inputs.merkle_root, 32)
    THEN "Ok(false)"
    ELSE IF Slice(self.bytes, 65, 97) # BytesOf(public_inputs.nullifier, 32)
    THEN "Ok(false)"
    ELSE "Ok(true)"

\* Proof::generate_association: Result<Proof, CircuitError>
generate_association(witness, public_inputs) ==
    LET deposit_root == compute_root_from_path(witness.commitment,
                                               witness.deposit_path,
                                               witness.deposit_indices)
        association_root == compute_root_from_path(witness.commitment,
                                                   witness.association_path,
                                                   witness.association_indices)
        public_inputs_hash == <<"sha256", public_inputs.deposit_root,
                                public_inputs.association_root>>
    IN  IF deposit_root # public_inputs.deposit_root
        THEN [res |-> "Err(ProofGeneration)", proof |-> NoProof]
        ELSE IF association_root # public_inputs.association_root
        THEN [res |-> "Err(ProofGeneration)", proof |-> NoProof]
        ELSE [res |-> "Ok",
              proof |-> [bytes |-> <<2>> \o BytesOf(public_inputs_hash, 32)
                                       \o BytesOf(public_inputs.deposit_root, 32)
                                       \o BytesOf(public_inputs.association_root,
                                                  32),
                         public_inputs_hash |-> public_inputs_hash]]

\* Proof::verify_association: Result<bool, CircuitError>
verify_association(self, public_inputs) ==
    IF Len(self.bytes) < 97 THEN "Err(ProofVerification)"
    ELSE IF self.bytes[1] # 2 THEN "Err(ProofVerification)"
    ELSE IF Slice(self.bytes, 33, 65) # BytesOf(public_inputs.deposit_root, 32)
    THEN "Ok(false)"
    ELSE IF Slice(self.bytes, 65, 97)
                # BytesOf(public_inputs.association_root, 32)
    THEN "Ok(false)"
    ELSE "Ok(true)"

\* a call of a generator: the caller holds the proof it returned
Generate(op, result, public_inputs) ==
    /\ proof_last' = [op |-> op, public_inputs |-> public_inputs,
                      res |-> result.res]
    /\ IF result.res = "Ok"
       THEN /\ held_proof' = result.proof
            /\ proof_made' = [op |-> op, public_inputs |-> public_inputs]
       ELSE UNCHANGED <<held_proof, proof_made>>

\* a call of a verifier on the proof the caller holds
Verify(op, res, public_inputs) ==
    /\ held_proof # NoProof
    /\ proof_last' = [op |-> op, public_inputs |-> public_inputs, res |-> res]
    /\ UNCHANGED <<held_proof, proof_made>>

InitProofVars ==
    /\ held_proof = NoProof
    /\ proof_made = [op |-> "none", public_inputs |-> None]
    /\ proof_last = [op |-> "none", public_inputs |-> None, res |-> "Ok"]

NextProof ==
    /\ \/ \E w \in WithdrawalWitnesses, pi \in WithdrawalPublicInputs :
              Generate("generate_withdrawal", generate_withdrawal(w, pi), pi)
       \/ \E w \in AssociationWitnesses, pi \in AssociationPublicInputs :
              Generate("generate_association", generate_association(w, pi), pi)
       \/ \E pi \in WithdrawalPublicInputs :
              Verify("verify_withdrawal", verify_withdrawal(held_proof, pi), pi)
       \/ \E pi \in AssociationPublicInputs :
              Verify("verify_association", verify_association(held_proof, pi),
                     pi)
    /\ UNCHANGED <<aspVars, auditVars, treeVars, vaultVars, stateVars,
                 setVars, batchVars>>

---------------------------------------------------------------------------
(* EncryptedState (phat-contract/src/state.rs) as a value of its own *)

increment_commitment_count ==
    /\ held_state.commitment_count < MaxCount
    /\ held_state' = [held_state EXCEPT !.commitment_count = @ + 1]
    /\ state_last' = [op |-> "increment_commitment_count", input |-> <<>>,
                      res |-> "Ok", value |-> None]
    /\ UNCHANGED held_blob

update_timestamp(timestamp) ==
    /\ held_state' = [held_state EXCEPT !.last_update = timestamp]
    /\ state_last' = [op |-> "update_timestamp", input |-> <<>>,
                      res |-> "Ok", value |-> None]
    /\ UNCHANGED held_blob

\* EncryptedState::new() or EncryptedState::default() replaces the held state
Construct(op, state) ==
    /\ held_state' = state
    /\ state_last' = [op |-> op, input |-> <<>>, res |-> "Ok", value |-> None]
    /\ UNCHANGED held_blob

\* held_state.encrypt()
Encrypt ==
    /\ held_blob' = EncryptedState_encrypt(held_state)
    /\ state_last' = [op |-> "encrypt", input |-> <<>>, res |-> "Ok",
                      value |-> None]
    /\ UNCHANGED held_state

\* the blobs handed to decrypt: the one encrypt returned, its first three
\* bytes, its header alone, the blob with one header byte changed, and the
\* blob without its last byte
Blobs ==
    IF Len(held_blob) < 5 THEN {held_blob}
    ELSE {held_blob, SubSeq(held_blob, 1, 3), SubSeq(held_blob, 1, 4),
          [held_blob EXCEPT ![5] = <<"cut", held_blob[5], 51>>]}
             \cup {[held_blob EXCEPT ![k] = 7] : k \in 1..4}

\* EncryptedState::decrypt(encrypted)
Decrypt(encrypted) ==
    LET result == EncryptedState_decrypt(encrypted)
    IN  /\ state_last' = [op |-> "decrypt", input |-> encrypted,
                          res |-> IF result.ok THEN "Ok" ELSE "DecryptionError",
                          value |-> result.value]
        /\ UNCHANGED <<held_state, held_blob>>

InitStateVars ==
    /\ held_state = EncryptedState_new
    /\ held_blob = <<>>
    /\ state_last = [op |-> "new", input |-> <<>>, res |-> "Ok", value |-> None]

NextState ==
    /\ \/ Construct("new", EncryptedState_new)
       \/ Construct("default", EncryptedState_default)
       \/ increment_commitment_count
       \/ \E timestamp \in VaultTimestamps : update_timestamp(timestamp)
       \/ Encrypt
       \/ \E encrypted \in Blobs : Decrypt(encrypted)
    /\ UNCHANGED <<aspVars, auditVars, treeVars, vaultVars, proofVars,
                 setVars, batchVars>>

---------------------------------------------------------------------------
(* NullifierSet (phat-contract/src/state.rs) *)

\* a nullifier given by the u64 of its bytes 0..8, 8..16, 16..24 and by its
\* last eight bytes
NullifierBytes(h1, h2, h3, rest) ==
    [h1 |-> h1, h2 |-> h2, h3 |-> h3, rest |-> rest]

\* the nullifiers handed to insert: 16 and 1040 select the same bit of the
\* same word, so the first three fill the same three bits of the filter,
\* and the bits of the last are filled by the first and the fourth together
SetNullifiers ==
    {NullifierBytes(16, 16, 16, 1),
     NullifierBytes(1040, 1040, 1040, 1),
     NullifierBytes(16, 16, 16, 2),
     NullifierBytes(17, 33, 2, 0),
     NullifierBytes(16, 33, 16, 0)}

\* [(word_idx, bit_idx); 3]
bloom_indices(nullifier) ==
    <<<<nullifier.h1 % 16, (nullifier.h1 \div 16) % 64>>,
      <<nullifier.h2 % 16, (nullifier.h2 \div 16) % 64>>,
      <<nullifier.h3 % 16, (nullifier.h3 \div 16) % 64>>>>

\* an add_to_bloom that assigns the word instead of or-ing the bit into it
add_to_bloom_Overwrites(filter, nullifier) ==
    LET indices == bloom_indices(nullifier)
    IN  [w \in DOMAIN filter |->
            IF \E k \in 1..3 : indices[k][1] = w
            THEN {indices[CHOOSE k \in 1..3 :
                              /\ indices[k][1] = w
                              /\ \A j \in (k + 1)..3 : indices[j][1] # w][2]}
            ELSE filter[w]]

\* bloom_filter[word_idx] |= 1 << bit_idx for the three indices
add_to_bloom(filter, nullifier) ==
    LET indices == bloom_indices(nullifier)
    IN  [w \in DOMAIN filter |->
            filter[w] \cup {indices[k][2] : k \in {j \in 1..3 : indices[j][1] = w}}]

check_bloom(nullifier) ==
    LET indices == bloom_indices(nullifier)
    IN  \A k \in 1..3 : indices[k][2] \in bloom_filter[indices[k][1]]

\* a contains that trusts the filter and never looks at the vector
NullifierSet_contains_FilterOnly(nullifier) == check_bloom(nullifier)

\* NullifierSet::contains
NullifierSet_contains(nullifier) ==
    IF ~check_bloom(nullifier) THEN FALSE
    ELSE nullifier \in Range(nullifiers)

\* NullifierSet::insert
NullifierSet_insert(nullifier) ==
    /\ inserted' = inserted \cup {nullifier}
    /\ IF NullifierSet_contains(nullifier)
       THEN /\ set_last' = [op |-> "insert", nullifier |-> nullifier,
                            res |-> FALSE]
            /\ UNCHANGED <<nullifiers, bloom_filter>>
       ELSE /\ bloom_filter' = add_to_bloom(bloom_filter, nullifier)
            /\ nullifiers' = Append(nullifiers, nullifier)
            /\ set_last' = [op |-> "insert", nullifier |-> nullifier,
                            res |-> TRUE]

NullifierSet_len == Len(nullifiers)

\* NullifierSet::new
InitSetVars ==
    /\ nullifiers = <<>>
    /\ bloom_filter = [w \in 0..15 |-> {}]
    /\ set_last = [op |-> "new", nullifier |-> None, res |-> TRUE]
    /\ inserted = {}

NextSet ==
    /\ \E nullifier \in SetNullifiers : NullifierSet_insert(nullifier)
    /\ UNCHANGED <<aspVars, auditVars, treeVars, vaultVars, proofVars,
                   stateVars, batchVars>>

---------------------------------------------------------------------------
(* BatchProcessor (phat-contract/src/processor.rs) *)

\* the requests put into a batch: withdrawals of one commitment along the
\* two paths that fold to a root of the vault, with amount 0 or 1 and the
\* two nullifiers bound to the commitment
BatchRequests ==
    {r \in WithdrawalRequests :
        /\ r.commitment = Bytes32(1)
        /\ r.merkle_proof = <<Bytes32(2)>>
        /\ Len(r.proof_indices) = 1
        /\ verify_nullifier_derivation(r.commitment, r.nullifier)}

pending_count == Len(requests)

is_full == Len(requests) >= MaxBatch

\* an add_request that pushes first and looks at the size afterwards
add_request_PushesFirst(request) ==
    /\ requests' = Append(requests, request)
    /\ batch_last' = [op |-> "add_request", request |-> Some(request),
                      res |-> Len(requests) + 1 >= MaxBatch, results |-> <<>>]

\* Ok(true) when the batch is full, Ok(false) after the push
add_request(request) ==
    IF Len(requests) >= MaxBatch THEN
        /\ batch_last' = [op |-> "add_request", request |-> Some(request),
                          res |-> TRUE, results |-> <<>>]
        /\ UNCHANGED requests
    ELSE
        /\ requests' = Append(requests, request)
        /\ batch_last' = [op |-> "add_request", request |-> Some(request),
                          res |-> FALSE, results |-> <<>>]

\* the pairs (proof, nullifier) of the requests from position k on; the
\* generator has answered Ok for every one of them
RECURSIVE BatchResults(_, _)
BatchResults(commitment_root_, k) ==
    IF k > Len(requests) THEN <<>>
    ELSE LET result == generate_withdrawal_proof(commitment_root_, requests[k])
         IN  (IF result.is_valid
              THEN <<[proof |-> result.proof, nullifier |-> requests[k].nullifier]>>
              ELSE <<>>)
                 \o BatchResults(commitment_root_, k + 1)

\* the error of the first request the generator refuses leaves the loop and
\* the function through `?`, before requests.clear()
process_batch(commitment_root_, vault_address) ==
    LET failing == {k \in 1..Len(requests) :
                       generate_withdrawal_proof(commitment_root_, requests[k]).res
                           # "Ok"}
    IN  IF failing # {} THEN
            LET first == CHOOSE k \in failing : \A j \in failing : k <= j
            IN  /\ batch_last' =
                       [op |-> "process_batch", request |-> None,
                        res |-> generate_withdrawal_proof(
                                    commitment_root_, requests[first]).res,
                        results |-> <<>>]
                /\ UNCHANGED requests
        ELSE
            /\ batch_last' = [op |-> "process_batch", request |-> None,
                              res |-> "Ok",
                              results |-> BatchResults(commitment_root_, 1)]
            /\ requests' = <<>>

\* BatchProcessor::new(max_batch_size)
InitBatchVars ==
    /\ requests = <<>>
    /\ batch_last = [op |-> "new", request |-> None, res |-> "Ok",
                     results |-> <<>>]

NextBatch ==
    /\ \/ \E request \in BatchRequests : add_request(request)
       \/ \E root \in VaultRoots : process_batch(root, evm_vault_address)
    /\ UNCHANGED <<aspVars, auditVars, treeVars, vaultVars, proofVars,
                   stateVars, setVars>>

---------------------------------------------------------------------------
(* Specifications *)

Init ==
    InitASPVars /\ InitAuditVars /\ InitTreeVars /\ InitVaultVars
        /\ InitProofVars /\ InitStateVars /\ InitSetVars
        /\ InitBatchVars

SpecASP == Init /\ [][NextASP]_vars

SpecAudit == Init /\ [][NextAudit]_vars

SpecTree == Init /\ [][NextTree]_vars

SpecVault == Init /\ [][NextVault]_vars

SpecProof == Init /\ [][NextProof]_vars

SpecState == Init /\ [][NextState]_vars

SpecSet == Init /\ [][NextSet]_vars

SpecBatch == Init /\ [][NextBatch]_vars

\* the two components of the compliance crate; they share no state, and a
\* behaviour exercises the one that made the first step
ASPIdle == asp_last.op = "new"
AuditIdle == audit_last.op = "new"

NextCompliance ==
    \/ AuditIdle /\ NextASP
    \/ ASPIdle /\ NextAudit

SpecCompliance == Init /\ [][NextCompliance]_vars

---------------------------------------------------------------------------
(* Claims on the vault *)

AcceptedNullifiers == {accepted[k].nullifier : k \in DOMAIN accepted}

C1_NullifierAcceptedOnce ==
    /\ \A i, j \in DOMAIN accepted :
          accepted[i].nullifier = accepted[j].nullifier => i = j
    /\ Len(audit_log) = Len(accepted)

C1_ReuseIsRefused ==
    (vault_last'.op = "process_withdrawal"
        /\ vault_last'.nullifier \in AcceptedNullifiers)
    => /\ vault_last'.res = "NullifierAlreadyUsed"
       /\ audit_log' = audit_log
       /\ accepted' = accepted

\* C1: once a process_withdrawal carrying nullifier n has succeeded, every
\* later call whose request carries n returns NullifierAlreadyUsed and appends
\* no audit entry; there is at most one accepted withdrawal per nullifier and
\* one audit entry per accepted withdrawal.
C1_NullifierUsedAtMostOnce ==
    []C1_NullifierAcceptedOnce /\ [][C1_ReuseIsRefused]_vars

\* C1 witness: a request carrying an accepted nullifier has just been refused.
C1_Witness ==
    /\ vault_last.op = "process_withdrawal"
    /\ vault_last.res = "NullifierAlreadyUsed"
    /\ vault_last.nullifier \in AcceptedNullifiers
    /\ Len(audit_log) = 1

\* C2: of the requests the vault accepted, no two carry the same commitment
\* with different nullifiers.
C2_OneNullifierPerCommitment ==
    \A i, j \in DOMAIN accepted :
        accepted[i].commitment = accepted[j].commitment
            => accepted[i].nullifier = accepted[j].nullifier

C3_ErrorChangesNothing ==
    (vault_last'.op = "process_withdrawal" /\ vault_last'.res # "Ok")
    => UNCHANGED <<nullifier_set, audit_log, commitment_root>>

\* C3: a process_withdrawal that returns an error leaves nullifier_set,
\* audit_log and commitment_root as they were, and in every state each
\* recorded nullifier has its audit entry.
C3_ErrorLeavesVaultUnchanged ==
    [](Len(nullifier_set) = Len(audit_log)) /\ [][C3_ErrorChangesNothing]_vars

\* C3 witness: a request failed the last check, the nullifier binding, on a
\* vault that has already accepted a withdrawal.
C3_Witness ==
    /\ vault_last.op = "process_withdrawal"
    /\ vault_last.res = "InvalidProof"
    /\ Len(nullifier_set) = 1
    /\ Len(audit_log) = 1

---------------------------------------------------------------------------
(* Claims on the AssociationSetProvider and the Merkle proofs *)

AspState == <<approved_set, merkle_nodes, asp_root, exclusion_list,
              commitment_indices>>

\* C4: for every approved commitment c, generate_proof(c) succeeds and
\* verify_proof(c, proof) on the returned proof is true, after any sequence
\* of add_commitment, remove_commitment and set_exclusion_list.
C4_ProofOfApprovedVerifies ==
    \A c \in Commitments :
        is_approved(c) =>
            LET r == asp_generate_proof(c)
            IN  /\ r.res = "Ok"
                /\ asp_verify_proof(asp_root, c, r.proof[1])

\* C5: after any sequence of inserts into the deposit tree (an insert always
\* changes a node, so the nodes differ from those of the new tree) and for every
\* leaf index i, verify_proof(leaves[i], generate_proof(i)) is true.
C5_EveryLeafProofVerifies ==
    nodes # tree_new(TreeDepth).nodes =>
        \A i \in TreeIndices :
            tree_verify_proof(leaves[i + 1], tree_generate_proof(i))

\* the proofs handed to verify_proof for commitment c: any path of at most one
\* sibling, with the root the path folds to (a proof that verifies in the tree
\* it was made for), the zero root, or another commitment as root
AspLeaves == Commitments \cup {Zero}
AspProofInputs(c) ==
    UNION {
        {[path |-> p, indices |-> i, root |-> FoldPath(c, p, i, 1)],
         [path |-> p, indices |-> i, root |-> Zero],
         [path |-> p, indices |-> i, root |-> Bytes32(1)]} :
        p \in {<<>>} \cup {<<x>> : x \in AspLeaves},
        i \in {<<>>, <<FALSE>>, <<TRUE>>} }

\* the inclusion proofs handed to verify_inclusion: the entry hash of a logged
\* entry, at most one sibling, and the root the path folds to or zero
AuditProofInputs ==
    UNION {
        {[entry_hash |-> h, path |-> p, indices |-> i,
          root |-> FoldPath(h, p, i, 1)],
         [entry_hash |-> h, path |-> p, indices |-> i, root |-> Zero]} :
        h \in Range(EntryHashes(entries)),
        p \in {<<>>} \cup {<<x>> : x \in Range(EntryHashes(entries)) \cup {Zero}},
        i \in {<<>>, <<FALSE>>, <<TRUE>>} }

C6_RejectsOtherRoot ==
    /\ \A c \in AspLeaves : \A p \in AspProofInputs(c) :
          p.root # asp_root => ~asp_verify_proof(asp_root, c, p)
    /\ \A p \in AuditProofInputs :
          p.root # audit_root => ~verify_inclusion(audit_root, p)

\* a proof obtained in this state and presented after the next call
C6_RejectsStaleProof ==
    /\ \A c \in Commitments :
          LET r == asp_generate_proof(c)
          IN  (r.res = "Ok" /\ r.proof[1].root # asp_root')
                  => ~asp_verify_proof(asp_root', c, r.proof[1])
    /\ \A k \in DOMAIN entries :
          LET r == generate_inclusion_proof(entries[k].id)
          IN  (r.res = "Ok" /\ r.proof[1].root # audit_root')
                  => ~verify_inclusion(audit_root', r.proof[1])

\* C6: verify_proof of the provider and verify_inclusion of the trail return
\* false for every proof whose root field differs from the current root, in
\* particular for a proof that was generated before a call changed the root.
C6_NoStaleRootAcceptance ==
    []C6_RejectsOtherRoot /\ [][C6_RejectsStaleProof]_vars

\* C6 witness: c was the only leaf, so its proof was the empty path with root c;
\* a later add_commitment changed the root and that proof is now rejected.
C6_Witness ==
    \E c \in approved_set :
        LET p == [path |-> <<>>, indices |-> <<>>, root |-> c]
        IN  /\ asp_last.op = "add_commitment" /\ asp_last.res = "Ok"
            /\ asp_last.c # c
            /\ merkle_nodes[1][1] = c
            /\ FoldPath(c, p.path, p.indices, 1) = p.root
            /\ p.root # asp_root
            /\ ~asp_verify_proof(asp_root, c, p)

\* C7: no commitment matched by the current exclusion list is a member of
\* the approved set.
C7_NoExcludedInApprovedSet ==
    \A c \in approved_set : ~is_excluded(exclusion_list, c)

\* C8: is_approved(c) is true exactly for the commitments added by a
\* successful add_commitment, not removed by a successful remove_commitment
\* since, and not matched by the exclusion list in force.
C8_ApprovedIffAddedNotRemoved ==
    \A c \in AspLeaves :
        is_approved(c) <=> (c \in asp_added /\ ~is_excluded(exclusion_list, c))

\* C8 witness: a commitment has just been removed, another one is approved
\* and an exclusion list is in force.
C8_Witness ==
    /\ asp_last.op = "remove_commitment" /\ asp_last.res = "true"
    /\ ~is_approved(asp_last.c)
    /\ \E d \in Commitments : is_approved(d)
    /\ exclusion_list.addresses # {}

\* C9: add_commitment(c) for a commitment matched by the exclusion list
\* returns CommitmentExcluded and leaves approved set, index map, tree and
\* root unchanged.
C9_ExcludedAddChangesNothing ==
    [][(asp_last'.op = "add_commitment"
            /\ is_excluded(exclusion_list, asp_last'.c))
        => (asp_last'.res = "CommitmentExcluded" /\ UNCHANGED AspState)]_vars

\* C9 witness: the add of an excluded commitment was refused on a provider
\* that already holds a commitment.
C9_Witness ==
    /\ asp_last.op = "add_commitment" /\ asp_last.res = "CommitmentExcluded"
    /\ is_excluded(exclusion_list, asp_last.c)
    /\ Cardinality(approved_set) = 1

\* C10: add_commitment(c) on a full approved set, c not excluded, fails with
\* CapacityExceeded and leaves the provider unchanged.
C10_FullSetGivesCapacityExceeded ==
    [][(asp_last'.op = "add_commitment"
            /\ ~is_excluded(exclusion_list, asp_last'.c)
            /\ Cardinality(approved_set) >= MaxSetSize)
        => (asp_last'.res = "CapacityExceeded" /\ UNCHANGED AspState)]_vars

---------------------------------------------------------------------------
(* Claims on capacity and on the audit journal *)

\* size() of the provider
asp_size == Cardinality(approved_set)

\* C11: after every operation of the provider the approved set holds at most
\* config.max_set_size commitments.
C11_SizeWithinCapacity == asp_size <= MaxSetSize

\* C11 witness: the set is full and the add of a commitment that is neither
\* excluded nor a member has just been refused.
C11_Witness ==
    /\ asp_size = MaxSetSize
    /\ asp_last.op = "add_commitment" /\ asp_last.res = "InvalidProof"
    /\ asp_last.c \notin approved_set
    /\ ~is_excluded(exclusion_list, asp_last.c)

\* C12: for every entry id a log_* call has returned, generate_inclusion_proof
\* succeeds and verify_inclusion accepts the proof against the current root.
C12_EveryReturnedIdIsProvable ==
    \A k \in DOMAIN audit_calls :
        LET r == generate_inclusion_proof(audit_calls[k].id)
        IN  /\ r.res = "Ok"
            /\ verify_inclusion(audit_root, r.proof[1])

\* C12 witness: three calls were made and the proof for the id the first one
\* returned has two siblings and is accepted.
C12_Witness ==
    /\ Len(audit_calls) = 3
    /\ LET r == generate_inclusion_proof(audit_calls[1].id)
       IN  /\ r.res = "Ok"
           /\ Len(r.proof[1].path) = 2
           /\ verify_inclusion(audit_root, r.proof[1])

\* C13: for every entry id a log_* call has returned and every regulator key,
\* selective_disclosure succeeds, its inclusion proof is accepted against the
\* current root, and decrypting encrypted_for_regulator with the key gives
\* the details that were logged.
C13_DisclosureGivesLoggedDetails ==
    \A k \in DOMAIN audit_calls : \A key \in RegulatorKeys :
        LET d == selective_disclosure(audit_calls[k].id, key)
        IN  /\ d.res = "Ok"
            /\ verify_inclusion(audit_root, d.value[1].inclusion_proof)
            /\ decrypt_details(d.value[1].encrypted_for_regulator, key)
                   = [ok |-> TRUE, details |-> audit_calls[k].details]

\* C13 witness: a withdrawal and a compliance check are in the journal and
\* the disclosure of the older one, made after the newer was logged, succeeds.
C13_Witness ==
    /\ Len(audit_calls) = 2
    /\ audit_calls[1].operation_type = "Withdrawal"
    /\ audit_calls[2].operation_type = "ComplianceCheck"
    /\ LET d == selective_disclosure(audit_calls[1].id, Bytes32(171))
       IN  /\ d.res = "Ok"
           /\ decrypt_details(d.value[1].encrypted_for_regulator, Bytes32(171))
                  .details.recipient_hash = Some(Bytes32(3))

C14_EntriesInCallOrder ==
    /\ Len(entries) = Len(audit_calls)
    /\ entry_count = Len(entries)
    /\ \A k \in DOMAIN entries :
          /\ entries[k].id = audit_calls[k].id
          /\ entries[k].operation_type = audit_calls[k].operation_type
          /\ entries[k].commitment_hash
                 = hash_commitment(audit_calls[k].commitment)
          /\ entries[k].timestamp = audit_calls[k].timestamp
          /\ entries[k].merkle_index = k - 1

C14_EntriesAreKept ==
    /\ Len(entries') >= Len(entries)
    /\ \A k \in DOMAIN entries : entries'[k] = entries[k]

\* C14: the entry of the k-th log_* call is at position k with merkle_index
\* k - 1, entry_count is the number of entries, and no call changes or
\* removes an entry that is already in the journal.
C14_JournalAppendOnlyOrdered ==
    []C14_EntriesInCallOrder /\ [][C14_EntriesAreKept]_vars

\* C14 witness: three calls of three kinds were made.
C14_Witness ==
    /\ Len(entries) = 3
    /\ entries[1].operation_type = "Deposit"
    /\ entries[2].operation_type = "Withdrawal"
    /\ entries[3].operation_type = "ComplianceCheck"
    /\ entries[3].merkle_index = 2

\* C15: no two entries of the journal have the same id, and every entry id
\* has exactly one key in the disclosure map.
C15_EntryIdsUnique ==
    /\ \A i, j \in DOMAIN entries : entries[i].id = entries[j].id => i = j
    /\ \A i \in DOMAIN entries :
          Cardinality({kv \in disclosure_keys : kv[1] = entries[i].id}) = 1
    /\ Cardinality(disclosure_keys) = Len(entries)

\* C15 witness: two calls with the same commitment at the same timestamp.
C15_Witness ==
    /\ Len(audit_calls) = 2
    /\ audit_calls[1].commitment = audit_calls[2].commitment
    /\ audit_calls[1].timestamp = audit_calls[2].timestamp
    /\ audit_calls[1].operation_type = audit_calls[2].operation_type
    /\ entries[1].id # entries[2].id

---------------------------------------------------------------------------
(* Claims on the vault's bookkeeping and on the withdrawal proof *)

C16_SetAgreesWithJournal ==
    /\ \A i, j \in DOMAIN nullifier_set :
          nullifier_set[i] = nullifier_set[j] => i = j
    /\ Len(nullifier_set) = get_audit_log_count
    /\ \A n \in Nullifiers : is_nullifier_used(n) <=> n \in AcceptedNullifiers

C16_SuccessAddsOneOfEach ==
    IF vault_last'.op = "process_withdrawal" /\ vault_last'.res = "Ok"
    THEN /\ nullifier_set' = Append(nullifier_set, vault_last'.nullifier)
         /\ Len(audit_log') = Len(audit_log) + 1
         /\ SubSeq(audit_log', 1, Len(audit_log)) = audit_log
    ELSE nullifier_set' = nullifier_set /\ audit_log' = audit_log

\* C16: after every message the nullifier set has no duplicates, has as many
\* elements as the audit log has entries, and is_nullifier_used(n) holds
\* exactly for the nullifiers of successful withdrawals; a successful
\* process_withdrawal adds one nullifier and one audit entry, every other
\* message adds none.
C16_JournalAndNullifiersAgree ==
    []C16_SetAgreesWithJournal /\ [][C16_SuccessAddsOneOfEach]_vars

\* C16 witness: two withdrawals succeeded, a refused one followed, and one
\* nullifier is still unused.
C16_Witness ==
    /\ Len(nullifier_set) = 2
    /\ get_audit_log_count = 2
    /\ vault_last.op = "process_withdrawal"
    /\ vault_last.res = "NullifierAlreadyUsed"
    /\ \E n \in Nullifiers : ~is_nullifier_used(n)

\* the checks a request fails in the present state of the vault
C17_NotValid(request) ==
    \/ request.amount = 0
    \/ request.merkle_proof = <<>>
    \/ Len(request.merkle_proof) # Len(request.proof_indices)
C17_NotMember(request) ==
    FoldPath(request.commitment, request.merkle_proof,
             request.proof_indices, 1) # commitment_root
C17_NotBound(request) ==
    NullifierPrefix(request.commitment) # request.nullifier[2]

\* the results the earliest failing check of the generator allows
C17_Allowed(request) ==
    IF C17_NotValid(request) THEN {"InvalidRequest", "InvalidMerkleProof"}
    ELSE IF C17_NotMember(request) THEN {"InvalidMerkleProof"}
    ELSE IF C17_NotBound(request) THEN {"InvalidProof"}
    ELSE {"Ok"}

C17_GeneratorOrder ==
    \A request \in WithdrawalRequests :
        LET result == generate_withdrawal_proof(commitment_root, request)
        IN  /\ result.res \in C17_Allowed(request)
            /\ (result.proof # <<>>) <=> (C17_Allowed(request) = {"Ok"})

\* a step of process_withdrawal on a decoded request: a used nullifier is
\* refused as such whatever else the request fails, an unused one gets the
\* answer of the generator for a request that carries it
C17_UsedNullifierComesFirst ==
    (vault_last'.op = "process_withdrawal" /\ vault_last'.nullifier # None)
        => IF is_nullifier_used(vault_last'.nullifier)
           THEN vault_last'.res = "NullifierAlreadyUsed"
           ELSE \E request \in WithdrawalRequests :
                   /\ request.nullifier = vault_last'.nullifier
                   /\ vault_last'.res \in C17_Allowed(request)

---------------------------------------------------------------------------
(* Claims on the proof envelopes *)

\* C18: a withdrawal proof generated for public inputs with recipient r and
\* amount a is not accepted by verify_withdrawal against public inputs whose
\* recipient or amount is another.
C18_BoundToRecipientAndAmount ==
    (/\ proof_last.op = "verify_withdrawal"
     /\ proof_made.op = "generate_withdrawal"
     /\ \/ proof_last.public_inputs.recipient
               # proof_made.public_inputs.recipient
        \/ proof_last.public_inputs.amount # proof_made.public_inputs.amount)
        => proof_last.res # "Ok(true)"

\* the held proof does not match the public inputs of the last verification
C19_Mismatch ==
    \/ /\ proof_last.op = "verify_withdrawal"
       /\ \/ held_proof.bytes[1] # 1
          \/ Slice(held_proof.bytes, 33, 65)
                 # BytesOf(proof_last.public_inputs.merkle_root, 32)
          \/ Slice(held_proof.bytes, 65, 97)
                 # BytesOf(proof_last.public_inputs.nullifier, 32)
    \/ /\ proof_last.op = "verify_association"
       /\ \/ held_proof.bytes[1] # 2
          \/ Slice(held_proof.bytes, 33, 65)
                 # BytesOf(proof_last.public_inputs.deposit_root, 32)
          \/ Slice(held_proof.bytes, 65, 97)
                 # BytesOf(proof_last.public_inputs.association_root, 32)

\* C19: a verification of a proof whose version byte, roots or nullifier do
\* not match the public inputs returns false, and never an error.
C19_MismatchGivesFalse == C19_Mismatch => proof_last.res = "Ok(false)"

C20_Envelope(root, request, proof) ==
    /\ Len(proof) = 256
    /\ proof[1] = 1
    /\ Slice(proof, 1, 33)
           = BytesOf(<<"sha256", request.commitment, request.nullifier,
                       request.recipient, <<"le16", request.amount>>, root>>, 32)
    /\ Slice(proof, 33, 65) = BytesOf(root, 32)
    /\ Slice(proof, 65, 97) = BytesOf(request.nullifier, 32)
    /\ \A i \in 98..256 : proof[i] = 0

\* C20: every request generate_withdrawal_proof accepts against the deposit
\* root of the vault gets an envelope of exactly 256 bytes: the version byte
\* 1, the SHA-256 of commitment, nullifier, recipient, amount and root at
\* bytes 1..33, the root at 33..65, the nullifier at 65..97, zeros after.
C20_EnvelopeLayout ==
    \A request \in WithdrawalRequests :
        LET result == generate_withdrawal_proof(commitment_root, request)
        IN  result.res = "Ok"
                => C20_Envelope(commitment_root, request, result.proof)

\* C20 witness: the vault accepted a withdrawal, and the generator emits an
\* envelope for a request with that nullifier against the present root.
C20_Witness ==
    /\ vault_last.op = "process_withdrawal"
    /\ vault_last.res = "Ok"
    /\ \E request \in WithdrawalRequests :
          /\ request.nullifier = vault_last.nullifier
          /\ generate_withdrawal_proof(commitment_root, request).res = "Ok"
          /\ Len(generate_withdrawal_proof(commitment_root, request).proof) = 256

---------------------------------------------------------------------------
(* Claims on the compliance proof of the vault *)

\* C21: generate_compliance_proof answers Ok for a commitment and a
\* registered provider only if the provider approves the commitment, and
\* the association root in the result is the current root of the provider.
C21_ProofOnlyForApproved ==
    \A c \in VaultCommitments, asp \in AspAccounts, now \in VaultTimestamps :
        LET result == generate_compliance_proof(c, asp, now)
        IN  result.res = "Ok"
                => /\ is_approved(c)
                   /\ result.value[1].association_root = asp_root

---------------------------------------------------------------------------
(* Claims on the deposit tree *)

\* C22: no value other than zero is stored at two leaves of the deposit tree.
C22_OneLeafPerCommitment ==
    \A i, j \in DOMAIN leaves :
        (leaves[i] = leaves[j] /\ leaves[i] # FpZero) => i = j

C23_LeafIsKept ==
    \A i \in DOMAIN leaves : leaves[i] # FpZero => leaves'[i] = leaves[i]

\* C23: no insert changes or removes the value of a leaf that holds a
\* commitment.
C23_AppendOnly == [][C23_LeafIsKept]_vars

\* the root of the layer, every node the hash of its two children
RECURSIVE C24_BottomUp(_)
C24_BottomUp(layer) ==
    IF Len(layer) = 1 THEN layer[1]
    ELSE C24_BottomUp([i \in 1..(Len(layer) \div 2) |->
                          poseidon_hash_native(layer[2 * i - 1], layer[2 * i])])

\* C24: after an insert the root of the deposit tree is the root recomputed
\* bottom-up from the leaves, empty leaves being zero.
C24_RootIsRecomputedRoot ==
    nodes # tree_new(TreeDepth).nodes => tree_root = C24_BottomUp(leaves)

---------------------------------------------------------------------------
(* Claims on the tree of the provider *)

\* C25: the leaves of the provider's tree that are not zero are exactly the
\* approved commitments, and the root of a provider with an empty approved
\* set is zero.
C25_TreeMirrorsMembership ==
    /\ {merkle_nodes[1][k] : k \in DOMAIN merkle_nodes[1]} \ {Zero}
           = approved_set
    /\ approved_set = {} => asp_root = Zero

---------------------------------------------------------------------------
(* Claims on EncryptedState *)

\* C26: decrypt(encrypt(s)) succeeds and returns the four fields of s, for
\* the state s the caller holds.
C26_RoundTrip ==
    LET result == EncryptedState_decrypt(EncryptedState_encrypt(held_state))
    IN  result.ok /\ result.value = held_state

\* the blob starts with the four bytes E0 01 00 00
C27_HasMagic(encrypted) ==
    Len(encrypted) >= 4 /\ SubSeq(encrypted, 1, 4) = <<224, 1, 0, 0>>

\* C27: decrypt answers DecryptionError, and returns no state, for every
\* blob that does not start with E0 01 00 00.
C27_RejectsWithoutMagic ==
    (state_last.op = "decrypt" /\ ~C27_HasMagic(state_last.input))
        => state_last.res = "DecryptionError" /\ state_last.value = None

C30_Rewritten ==
    (/\ vault_last'.res = "Ok"
     /\ vault_last'.op \in {"initialize", "process_withdrawal",
                            "update_commitment_root", "register_asp"}
     /\ <<commitment_root, nullifier_set, asp_registry, audit_log,
          initialized>>'
            # <<commitment_root, nullifier_set, asp_registry, audit_log,
                initialized>>)
        => encrypted_state' # encrypted_state

\* C30: every successful message that changes the state of the vault writes
\* the stored encrypted_state again, with a blob that differs from the one
\* stored before.
C30_StateRewrittenOnChange == [][C30_Rewritten]_vars

---------------------------------------------------------------------------
(* Claims on NullifierSet *)

C28_SetIsWhatWasInserted ==
    /\ \A n \in SetNullifiers : NullifierSet_contains(n) <=> n \in inserted
    /\ NullifierSet_len = Cardinality(inserted)

C28_FirstInsertOnly ==
    set_last'.op = "insert"
        => set_last'.res = (set_last'.nullifier \notin inserted)

\* C28: insert(n) returns true the first time n is inserted and false every
\* later time, contains(n) holds from the first insert of n on, and len() is
\* the number of distinct nullifiers inserted.
C28_InsertIdempotent ==
    []C28_SetIsWhatWasInserted /\ [][C28_FirstInsertOnly]_vars

\* C28 witness: two nullifiers that fill the same bits of the filter are
\* both in the set, and a second insert of the first was refused.
C28_Witness ==
    /\ NullifierSet_len = 2
    /\ bloom_indices(nullifiers[1]) = bloom_indices(nullifiers[2])
    /\ set_last = [op |-> "insert", nullifier |-> nullifiers[1], res |-> FALSE]

---------------------------------------------------------------------------
(* Claims on the queries of the audit journal *)

\* the entry satisfies every predicate the query sets
C29_Satisfies(e, q) ==
    /\ q.operation_type = None \/ q.operation_type = Some(e.operation_type)
    /\ q.start_time = None \/ q.start_time[1] <= e.timestamp
    /\ q.end_time = None \/ e.timestamp <= q.end_time[1]
    /\ q.commitment_hash = None \/ q.commitment_hash = Some(e.commitment_hash)

\* the positions in the journal of the entries that satisfy the query
C29_Matching(q) == {i \in DOMAIN entries : C29_Satisfies(entries[i], q)}

\* C29: for every query, query returns one element for each entry of the
\* journal that satisfies all the predicates the query sets, and the k-th
\* element returned is the k-th such entry in insertion order.
C29_QueryIsTheMatchingEntriesInOrder ==
    \A q \in AuditQueries :
        LET result == query(q)
            idx    == C29_Matching(q)
        IN  /\ Len(result) = Cardinality(idx)
            /\ \A k \in 1..Len(result) :
                   \E i \in idx : /\ Cardinality({j \in idx : j < i}) = k - 1
                                  /\ result[k] = entries[i]

\* C29 witness: the journal holds a deposit, a withdrawal and a deposit, the
\* query for deposits returns the first and the third, and a query with all
\* four predicates set returns the third alone.
C29_Witness ==
    /\ Len(entries) = 3
    /\ query(with_operation(AuditQuery_new, "Deposit")) = <<entries[1], entries[3]>>
    /\ entries[2].operation_type = "Withdrawal"
    /\ \E c \in AuditCommitments :
           query(with_commitment(with_time_range(
                     with_operation(AuditQuery_new, "Deposit"), 1, 1), c))
               = <<entries[3]>>

---------------------------------------------------------------------------
(* Claims on the proofs of the deposit tree *)

\* the values presented to verify_proof: the values inserted and a hash
C31_Values == LeafValues \cup {poseidon_hash_native(FpZero, FpZero)}

\* C31: in every state of the tree, the proof generated for leaf index i
\* verifies for no value other than the one stored at i.
C31_ProofOnlyForStoredValue ==
    \A i \in TreeIndices : \A w \in C31_Values :
        w # leaves[i + 1] => ~tree_verify_proof(w, tree_generate_proof(i))

\* C31 witness: leaves 0 and 1 hold two different non-zero values, the proof
\* of leaf 0 verifies for the value of leaf 0 and is refused for zero and for
\* the value of leaf 1.
C31_Witness ==
    /\ leaves[1] # FpZero /\ leaves[2] # FpZero /\ leaves[1] # leaves[2]
    /\ tree_verify_proof(leaves[1], tree_generate_proof(0))
    /\ ~tree_verify_proof(FpZero, tree_generate_proof(0))
    /\ ~tree_verify_proof(leaves[2], tree_generate_proof(0))

---------------------------------------------------------------------------
(* Claims on the shape of the Merkle proofs *)

\* the proof has D siblings and D direction bits, bit k being bit k of index
C32_Shape(proof, index) ==
    /\ Len(proof.path) = TreeDepth
    /\ Len(proof.indices) = TreeDepth
    /\ \A k \in 1..Len(proof.indices) :
           proof.indices[k] = ((index \div Pow2(k - 1)) % 2 = 1)

C32_DepositProofShape ==
    \A i \in TreeIndices : C32_Shape(tree_generate_proof(i), i)

C32_AspProofShape ==
    \A c \in Commitments :
        LET r == asp_generate_proof(c)
        IN  r.res = "Ok" => C32_Shape(r.proof[1], commitment_indices[c])

\* C32: every proof generate_proof returns, of the deposit tree and of the
\* tree of the provider, has D sibling hashes and D direction bits, and
\* direction bit k is bit k of the leaf index.
C32_ProofsHaveDepthD == C32_DepositProofShape /\ C32_AspProofShape

---------------------------------------------------------------------------
(* Claims on the leaf indices of the provider *)

\* no two members of the approved set have the same recorded index
C33_IndicesUnique ==
    \A c, d \in approved_set :
        c # d => commitment_indices[c] # commitment_indices[d]

\* the recorded index of a commitment that stays in the approved set is kept
C33_IndexKept ==
    \A c \in approved_set \cap approved_set' :
        commitment_indices'[c] = commitment_indices[c]

\* C33: each approved commitment has a unique leaf index, and the index of a
\* commitment does not change while it stays approved, whatever adds
\* (repeated ones included) and removals happen.
C33_StableUniqueIndex == []C33_IndicesUnique /\ [][C33_IndexKept]_vars

---------------------------------------------------------------------------
(* Claims on the filter of NullifierSet *)

\* contains is membership in the vector, and the filter has the bits of
\* every nullifier of the vector
C34_ContainsIsMembership ==
    /\ \A n \in SetNullifiers : NullifierSet_contains(n) <=> n \in Range(nullifiers)
    /\ \A n \in Range(nullifiers) : check_bloom(n)

\* no bit of the filter is cleared
C34_BitsKept == \A w \in DOMAIN bloom_filter : bloom_filter[w] \subseteq bloom_filter'[w]

\* C34: after any sequence of inserts contains(n) is membership of n in the
\* nullifier list for every n, the filter passes every nullifier of the
\* list, and a bit of the filter that is set stays set.
C34_FilterOnlyAccelerates == []C34_ContainsIsMembership /\ [][C34_BitsKept]_vars

\* C34 witness: the filter passes a nullifier that was never inserted (its
\* bits were set by the nullifiers of the list) and contains refuses it.
C34_Witness ==
    \E n \in SetNullifiers :
        /\ check_bloom(n)
        /\ n \notin inserted
        /\ ~NullifierSet_contains(n)
        /\ NullifierSet_len >= 1

---------------------------------------------------------------------------
(* Claims on the errors of generate_proof of the provider *)

\* C35: generate_proof(c) fails with CommitmentNotFound when c is not in the
\* approved set, whether c is excluded or not, fails with CommitmentExcluded
\* when c is in the set and excluded, and returns a proof only for an
\* approved commitment that is not excluded.
C35_NotFoundBeforeExcluded ==
    \A c \in Commitments :
        LET r == asp_generate_proof(c)
        IN  /\ c \notin approved_set => r.res = "CommitmentNotFound"
            /\ (c \in approved_set /\ is_excluded(exclusion_list, c))
                   => r.res = "CommitmentExcluded"
            /\ r.res = "Ok" => (c \in approved_set /\ ~is_excluded(exclusion_list, c))
            /\ (r.res = "Ok") = (r.proof # <<>>)

\* C35 witness: one commitment is excluded and not in the set and is answered
\* CommitmentNotFound, another is approved and gets a proof.
C35_Witness ==
    /\ \E c \in Commitments :
          /\ c \notin approved_set
          /\ is_excluded(exclusion_list, c)
          /\ asp_generate_proof(c).res = "CommitmentNotFound"
    /\ \E d \in Commitments : asp_generate_proof(d).res = "Ok"

---------------------------------------------------------------------------
(* Claims on the root a withdrawal is checked against *)

\* the root the membership path of the request folds to
C36_Folds(request) ==
    FoldPath(request.commitment, request.merkle_proof, request.proof_indices, 1)

\* after a root update that changes the root, the generator built on the new
\* root refuses every well-formed request whose path folds to the old one
C36_OldRootRefused ==
    (/\ vault_last'.op = "update_commitment_root"
     /\ vault_last'.res = "Ok"
     /\ commitment_root' # commitment_root)
        => \A request \in WithdrawalRequests :
               (validate_request(request) = "Ok"
                    /\ C36_Folds(request) = commitment_root)
                   => generate_withdrawal_proof(commitment_root', request).res
                          = "InvalidMerkleProof"

\* a refusal for the membership proof changes nothing, and a withdrawal that
\* succeeds is one of a request whose path folds to the stored root
C36_CurrentRootDecides ==
    /\ (vault_last'.op = "process_withdrawal"
            /\ vault_last'.res = "InvalidMerkleProof")
           => UNCHANGED <<encrypted_state, commitment_root, nullifier_set,
                          asp_registry, audit_log, initialized>>
    /\ (vault_last'.op = "process_withdrawal" /\ vault_last'.res = "Ok"
            /\ Len(accepted') = Len(accepted) + 1)
           => \E request \in WithdrawalRequests :
                  /\ request.commitment = accepted'[Len(accepted')].commitment
                  /\ request.nullifier = accepted'[Len(accepted')].nullifier
                  /\ C36_Folds(request) = commitment_root
                  /\ commitment_root' = commitment_root

---------------------------------------------------------------------------
(* Claims on the initialization of the vault *)

C37_Untouched ==
    UNCHANGED <<encrypted_state, commitment_root, nullifier_set, asp_registry,
                audit_log, initialized>>

\* the answers of the vault before it is initialized; callers is the set of
\* accounts whose update_commitment_root is answered StateCorrupted
C37_BeforeInitialize(callers) ==
    ~initialized =>
        /\ vault_last'.op = "process_withdrawal"
               => vault_last'.res = "StateCorrupted" /\ C37_Untouched
        /\ vault_last'.op = "update_commitment_root"
               => /\ C37_Untouched
                  /\ vault_last'.caller \in callers
                         => vault_last'.res = "StateCorrupted"
        /\ (vault_last'.op = "initialize" /\ vault_last'.caller = owner)
               => /\ vault_last'.res = "Ok"
                  /\ initialized'
                  /\ commitment_root' \in VaultRoots
        /\ initialized' => (vault_last'.op = "initialize" /\ vault_last'.res = "Ok")

\* an initialized vault stays initialized and refuses every initialize
C37_AfterInitialize ==
    initialized =>
        /\ initialized'
        /\ vault_last'.op = "initialize"
               => /\ vault_last'.res = "NotAuthorized"
                  /\ UNCHANGED <<commitment_root, nullifier_set, audit_log>>

\* a vault that is not initialized is as constructed and gives no
\* compliance proof
C37_NothingBeforeInitialize ==
    ~initialized =>
        /\ commitment_root = Zero /\ nullifier_set = <<>> /\ audit_log = <<>>
        /\ \A c \in VaultCommitments, asp \in Accounts, now \in VaultTimestamps :
               generate_compliance_proof(c, asp, now).res = "StateCorrupted"

\* C37 as stated: before a successful initialize, process_withdrawal,
\* generate_compliance_proof and update_commitment_root fail with
\* StateCorrupted, whoever calls, and change nothing; the first initialize by
\* the owner sets the root and the flag; every later initialize fails with
\* NotAuthorized and leaves root, nullifier set and audit log unchanged.
C37_InitializedOnce_AsStated ==
    /\ []C37_NothingBeforeInitialize
    /\ [][C37_BeforeInitialize(Accounts) /\ C37_AfterInitialize]_vars

\* C37, amended: as stated, except that before initialization
\* update_commitment_root is answered StateCorrupted to the owner only; any
\* other caller is refused by the owner check, which comes first.
C37_InitializedOnce ==
    /\ []C37_NothingBeforeInitialize
    /\ [][/\ C37_BeforeInitialize({owner})
          /\ C37_AfterInitialize
          /\ (vault_last'.op = "update_commitment_root"
                  /\ vault_last'.caller # owner)
                 => vault_last'.res = "NotAuthorized"]_vars

\* C37 witness: on a vault that has accepted a withdrawal the owner called
\* initialize again and was refused.
C37_Witness ==
    /\ initialized
    /\ nullifier_set # <<>>
    /\ vault_last.op = "initialize"
    /\ vault_last.caller = owner
    /\ vault_last.res = "NotAuthorized"

---------------------------------------------------------------------------
(* Claims on the owner of the vault *)

C38_OwnerMessages == {"initialize", "update_commitment_root", "register_asp"}

C38_OthersRefused ==
    /\ (vault_last'.op \in C38_OwnerMessages /\ vault_last'.caller # owner)
           => /\ vault_last'.res = "NotAuthorized"
              /\ UNCHANGED <<commitment_root, initialized, asp_registry>>
    /\ <<commitment_root, initialized, asp_registry>>'
           # <<commitment_root, initialized, asp_registry>>
           => /\ vault_last'.op \in C38_OwnerMessages
              /\ vault_last'.caller = owner
              /\ vault_last'.res = "Ok"

\* C38: initialize, update_commitment_root and register_asp called by an
\* account other than the owner fail with NotAuthorized and leave
\* commitment_root, initialized and asp_registry unchanged, so that these
\* change only in a successful call of the owner.
C38_OnlyOwnerConfigures == [][C38_OthersRefused]_vars

\* C38 witness: on an initialized vault with a registered provider another
\* account asked for a new root and was refused.
C38_Witness ==
    /\ initialized
    /\ asp_registry # <<>>
    /\ vault_last.op = "update_commitment_root"
    /\ vault_last.caller # owner
    /\ vault_last.res = "NotAuthorized"

---------------------------------------------------------------------------
(* Claims on BatchProcessor *)

\* C39: the result list of a successful process_batch holds no nullifier
\* more than once, whatever was enqueued.
C39_BatchAcceptsNullifierOnce ==
    (batch_last.op = "process_batch" /\ batch_last.res = "Ok")
        => \A i, j \in DOMAIN batch_last.results :
               i # j => batch_last.results[i].nullifier
                            # batch_last.results[j].nullifier

C40_WithinCapacity ==
    /\ pending_count <= MaxBatch
    /\ is_full <=> pending_count = MaxBatch

C40_AddRequestStep ==
    batch_last'.op = "add_request"
        => IF is_full
           THEN batch_last'.res = TRUE /\ requests' = requests
           ELSE /\ batch_last'.res = FALSE
                /\ requests' = Append(requests, batch_last'.request[1])

\* C40: pending_count() never exceeds max_batch_size and is_full() holds
\* exactly when the two are equal; add_request enqueues the request and
\* returns false while the batch is not full, and on a full batch returns
\* true and enqueues nothing.
C40_BatchWithinCapacity == []C40_WithinCapacity /\ [][C40_AddRequestStep]_vars

\* C40 witness: a request was handed to a full batch and refused.
C40_Witness ==
    /\ is_full
    /\ pending_count = MaxBatch
    /\ batch_last.op = "add_request"
    /\ batch_last.res = TRUE

=============================================================================
